---- MODULE Spec2Model ----
(***************************************************************************)
(* Model of the analysis orchestration and caching pipeline of             *)
(* what-is-the-code: src/src/extension.ts (analyzeCode, the result cache,  *)
(* the commands), the retry/timeout utility (withRetry, withTimeout) and   *)
(* the way CodeAnalyzer.analyze uses it.                                   *)
(***************************************************************************)
EXTENDS Integers, Sequences, FiniteSets, Bags, TLC

(***************************************************************************)
(* Bounds of the model.                                                    *)
(***************************************************************************)
\* the clock advances at most this many times
MaxTicks == 2
\* number of analyze / analyzeFile / refresh commands the user issues
MaxRequests == 2

(***************************************************************************)
(* Inputs.                                                                 *)
(***************************************************************************)
Files == {"auth.ts"}
\* the selection analysed by whatIsTheCode.analyze (1-based, inclusive): the
\* whole file is selected, so that both commands address the same cache key
Selections == {<<1, 40>>}
\* the range analysed by whatIsTheCode.analyzeFile: <<1, document.lineCount>>
FileRanges == {<<1, 40>>}
\* a selection of part of the file, with a cache key of its own
PartSelections == {<<5, 9>>}
\* code texts
Codes == {"c1", "c2"}

\* what the three collaborators may return to the orchestrator
GitResults == {"gitAnalysis"}
CodeResults == {"claude", "static"}
GithubResults == {"githubAnalysis"}
Throw == "throw"

\* absent values (an absent Map entry, no report, null / undefined)
NoEntry == [absent |-> "entry"]
NoReport == [absent |-> "report"]
NoAnalysis == [absent |-> "lastAnalysis"]
NoResult == [absent |-> "result"]
Null == "null"

VARIABLES
    analysisCache,       \* extension.ts:46  Map key -> CacheEntry
    lastAnalysis,        \* extension.ts:56
    analysisInProgress,  \* extension.ts:59
    analysisCancelled,   \* extension.ts:60
    claudeKey,           \* whether getClaudeApiKey() yields a key
    now,                 \* Date.now()
    pending,             \* the bag of command invocations awaiting a call
    ui,                  \* the last call made to the editor's UI
    issued,              \* number of commands issued so far
    retry,               \* one run of withRetry (see SpecRetry)
    gh,                  \* one run of GitHubAnalyzer.analyze (see SpecGithub)
    git,                 \* one run of GitAnalyzer.analyze (see SpecGit)
    summarizer           \* one result of CodeAnalyzer (see SpecSummarizer)

orchVars == <<analysisCache, lastAnalysis, analysisInProgress,
              analysisCancelled, claudeKey, now, pending, ui, issued>>
\* the runs of single components, which the orchestrator's steps leave alone
runVars == <<retry, gh, git, summarizer>>
vars == <<analysisCache, lastAnalysis, analysisInProgress,
          analysisCancelled, claudeKey, now, pending, ui, issued, retry, gh, git,
          summarizer>>

(***************************************************************************)
(* Cache helpers, extension.ts:48-103.                                     *)
(***************************************************************************)
cacheTtlMinutes == 30

getCacheTtlMs == cacheTtlMinutes * 60 * 1000

\* the clock is observed at multiples of the TTL: ages 0, TTL, 2 * TTL, ...
TickMs == getCacheTtlMs

getCacheKey(filePath, startLine, endLine) == <<filePath, startLine, endLine>>

\* crypto.createHash('md5').update(code).digest('hex')
getCodeHash(code) ==
    CASE code = "c1" -> "md5-1"
      [] code = "c2" -> "md5-2"
      [] OTHER -> "md5-0"

Keys ==
    {getCacheKey(f, r[1], r[2]) :
        f \in Files, r \in Selections \cup FileRanges \cup PartSelections}

\* mutant: the operands of the age are swapped
isExpired_swapped(entry) == entry.timestamp - now > getCacheTtlMs

\* extension.ts:79
isExpired(entry) == now - entry.timestamp > getCacheTtlMs

\* mutant: the code hash is not compared
codeChanged_never(entry, code) == FALSE

\* extension.ts:80
codeChanged(entry, code) == entry.codeHash # getCodeHash(code)

\* mutant: a hit renews the timestamp of the entry
getCachedResult_renews(filePath, startLine, endLine, code) ==
    LET key == getCacheKey(filePath, startLine, endLine)
        entry == analysisCache[key]
    IN IF entry = NoEntry
       THEN <<NoResult, analysisCache>>
       ELSE IF isExpired(entry) \/ codeChanged(entry, code)
            THEN <<NoResult, [analysisCache EXCEPT ![key] = NoEntry]>>
            ELSE <<entry.result, [analysisCache EXCEPT ![key].timestamp = now]>>

\* getCachedResult: <<value returned, cache afterwards>>
getCachedResult(filePath, startLine, endLine, code) ==
    LET key == getCacheKey(filePath, startLine, endLine)
        entry == analysisCache[key]
    IN IF entry = NoEntry
       THEN <<NoResult, analysisCache>>
       ELSE IF isExpired(entry) \/ codeChanged(entry, code)
            THEN <<NoResult, [analysisCache EXCEPT ![key] = NoEntry]>>
            ELSE <<entry.result, analysisCache>>

\* mutant: the entry is stored under the key of the latest request
setCachedResult_latestKey(filePath, startLine, endLine, code, result) ==
    [analysisCache EXCEPT ![getCacheKey(lastAnalysis.filePath,
                                        lastAnalysis.startLine,
                                        lastAnalysis.endLine)] =
        [result |-> result, codeHash |-> getCodeHash(code), timestamp |-> now]]

\* mutant: the hash stored is that of the file path, not of the code
setCachedResult_hashOfPath(filePath, startLine, endLine, code, result) ==
    [analysisCache EXCEPT ![getCacheKey(filePath, startLine, endLine)] =
        [result |-> result, codeHash |-> getCodeHash(filePath),
         timestamp |-> now]]

\* setCachedResult: the cache afterwards
setCachedResult(filePath, startLine, endLine, code, result) ==
    [analysisCache EXCEPT ![getCacheKey(filePath, startLine, endLine)] =
        [result |-> result, codeHash |-> getCodeHash(code), timestamp |-> now]]

\* the copy of a cached report that analyzeCode displays (extension.ts:250-254)
resultWithCacheInfo(cachedResult) ==
    [filePath |-> cachedResult.filePath,
     startLine |-> cachedResult.startLine,
     endLine |-> cachedResult.endLine,
     code |-> cachedResult.code,
     codeAnalysis |-> cachedResult.codeAnalysis,
     gitAnalysis |-> cachedResult.gitAnalysis,
     githubAnalysis |-> cachedResult.githubAnalysis,
     analyzedAt |-> cachedResult.analyzedAt,
     fromCache |-> TRUE,
     cacheAge |-> now - cachedResult.analyzedAt]

(***************************************************************************)
(* Invocations.  A command invocation that is suspended at an await is a   *)
(* record of its local variables in the bag pending; an invocation that    *)
(* has returned is not in the bag.                                         *)
(***************************************************************************)
NewInv == [pc |-> "getKey", filePath |-> Null, startLine |-> 0, endLine |-> 0,
           code |-> Null, forceRefresh |-> FALSE, gitAnalysis |-> Null,
           codeCommits |-> Null, codeAnalysis |-> Null, githubCommits |-> Null,
           cancelRequested |-> FALSE]

StagePcs == {"git", "code", "codeClaude", "codePrompt", "github"}

Invs == BagToSet(pending)

\* the invocation r returns
Without(r) == pending (-) SetToBag({r})

\* the invocation r suspends again as r2
Replace(r, r2) == Without(r) (+) SetToBag({r2})

Ui(kind, report) == [kind |-> kind, report |-> report]

\* mutant: the progress callback does not reset analysisCancelled
EnterProgress_keepsCancelled(r) ==
    /\ analysisInProgress' = TRUE
    /\ pending' = Replace(r, [r EXCEPT !.pc = "git"])
    /\ ui' = Ui("progress", NoReport)
    /\ UNCHANGED <<analysisCache, lastAnalysis, analysisCancelled, claudeKey, now>>

\* extension.ts:283-296: the progress callback up to the first stage call
EnterProgress(r) ==
    /\ analysisInProgress' = TRUE
    /\ analysisCancelled' = FALSE
    /\ pending' = Replace(r, [r EXCEPT !.pc = "git"])
    /\ ui' = Ui("progress", NoReport)
    /\ UNCHANGED <<analysisCache, lastAnalysis, claudeKey, now>>

\* mutant: lastAnalysis keeps the first request that was recorded
analyzeCode_keepsFirst(others, filePath, startLine, endLine, code, forceRefresh) ==
    IF analysisInProgress
    THEN /\ ui' = Ui("busy", NoReport)
         /\ pending' = others
         /\ UNCHANGED <<analysisCache, lastAnalysis, analysisInProgress,
                        analysisCancelled, claudeKey, now>>
    ELSE LET looked == getCachedResult(filePath, startLine, endLine, code)
             hit == ~forceRefresh /\ looked[1] # NoResult
         IN /\ lastAnalysis' = IF lastAnalysis # NoAnalysis THEN lastAnalysis
                               ELSE [filePath |-> filePath, startLine |-> startLine,
                                     endLine |-> endLine, code |-> code]
            /\ analysisCache' = IF forceRefresh THEN analysisCache ELSE looked[2]
            /\ IF hit
               THEN /\ ui' = Ui("cachedReport", resultWithCacheInfo(looked[1]))
                    /\ pending' = others
               ELSE /\ UNCHANGED ui
                    /\ pending' = others (+) SetToBag({
                                    [NewInv EXCEPT !.filePath = filePath,
                                                   !.startLine = startLine,
                                                   !.endLine = endLine,
                                                   !.code = code,
                                                   !.forceRefresh = forceRefresh]})
            /\ UNCHANGED <<analysisInProgress, analysisCancelled, claudeKey, now>>

\* mutant: lastAnalysis is recorded before the busy check
analyzeCode_recordsFirst(others, filePath, startLine, endLine, code, forceRefresh) ==
    /\ lastAnalysis' = [filePath |-> filePath, startLine |-> startLine,
                        endLine |-> endLine, code |-> code]
    /\ IF analysisInProgress
       THEN /\ ui' = Ui("busy", NoReport)
            /\ pending' = others
            /\ UNCHANGED <<analysisCache, analysisInProgress,
                           analysisCancelled, claudeKey, now>>
       ELSE LET looked == getCachedResult(filePath, startLine, endLine, code)
                hit == ~forceRefresh /\ looked[1] # NoResult
            IN /\ analysisCache' = IF forceRefresh THEN analysisCache ELSE looked[2]
               /\ IF hit
                  THEN /\ ui' = Ui("cachedReport", resultWithCacheInfo(looked[1]))
                       /\ pending' = others
                  ELSE /\ UNCHANGED ui
                       /\ pending' = others (+) SetToBag({
                                       [NewInv EXCEPT !.filePath = filePath,
                                                      !.startLine = startLine,
                                                      !.endLine = endLine,
                                                      !.code = code,
                                                      !.forceRefresh = forceRefresh]})
               /\ UNCHANGED <<analysisInProgress, analysisCancelled, claudeKey, now>>

\* extension.ts:236-262: analyzeCode up to the credential lookup; others are
\* the suspended invocations other than the caller
analyzeCode(others, filePath, startLine, endLine, code, forceRefresh) ==
    IF analysisInProgress
    THEN /\ ui' = Ui("busy", NoReport)
         /\ pending' = others
         /\ UNCHANGED <<analysisCache, lastAnalysis, analysisInProgress,
                        analysisCancelled, claudeKey, now>>
    ELSE LET looked == getCachedResult(filePath, startLine, endLine, code)
             hit == ~forceRefresh /\ looked[1] # NoResult
         IN /\ lastAnalysis' = [filePath |-> filePath, startLine |-> startLine,
                                endLine |-> endLine, code |-> code]
            /\ analysisCache' = IF forceRefresh THEN analysisCache ELSE looked[2]
            /\ IF hit
               THEN /\ ui' = Ui("cachedReport", resultWithCacheInfo(looked[1]))
                    /\ pending' = others
               ELSE /\ UNCHANGED ui
                    /\ pending' = others (+) SetToBag({
                                    [NewInv EXCEPT !.filePath = filePath,
                                                   !.startLine = startLine,
                                                   !.endLine = endLine,
                                                   !.code = code,
                                                   !.forceRefresh = forceRefresh]})
            /\ UNCHANGED <<analysisInProgress, analysisCancelled, claudeKey, now>>

\* whatIsTheCode.analyze, extension.ts:155-174
analyzeCommand ==
    /\ issued < MaxRequests
    /\ issued' = issued + 1
    /\ \E f \in Files, r \in Selections, c \in Codes :
          analyzeCode(pending, f, r[1], r[2], c, FALSE)
    /\ UNCHANGED runVars

\* whatIsTheCode.analyze, extension.ts:155-174, with part of the file selected
analyzePartCommand ==
    /\ issued < MaxRequests
    /\ issued' = issued + 1
    /\ \E f \in Files, r \in PartSelections, c \in Codes :
          analyzeCode(pending, f, r[1], r[2], c, FALSE)
    /\ UNCHANGED runVars

\* whatIsTheCode.analyzeFile, extension.ts:177-189
analyzeFileCommand ==
    /\ issued < MaxRequests
    /\ issued' = issued + 1
    /\ \E f \in Files, r \in FileRanges, c \in Codes :
          analyzeCode(pending, f, r[1], r[2], c, FALSE)
    /\ UNCHANGED runVars

\* whatIsTheCode.refresh, extension.ts:197-206: up to openTextDocument
refreshCommand ==
    /\ issued < MaxRequests
    /\ issued' = issued + 1
    /\ IF lastAnalysis = NoAnalysis
       THEN /\ ui' = Ui("error", NoReport)
            /\ UNCHANGED pending
       ELSE /\ pending' = pending (+) SetToBag({
                             [NewInv EXCEPT !.pc = "openDoc",
                                            !.code = lastAnalysis.code]})
            /\ UNCHANGED ui
    /\ UNCHANGED <<analysisCache, lastAnalysis, analysisInProgress,
                   analysisCancelled, claudeKey, now, runVars>>

\* mutant: the refresh command does not set forceRefresh
refreshOpened_notForced(r) ==
    /\ r.pc = "openDoc"
    /\ \E c \in Codes \cup {Throw} :
          analyzeCode(Without(r), lastAnalysis.filePath, lastAnalysis.startLine,
                      lastAnalysis.endLine,
                      IF c = Throw THEN r.code ELSE c, FALSE)
    /\ UNCHANGED <<issued, runVars>>

\* extension.ts:206-219: the document is open (fresh text) or cannot be opened
refreshOpened(r) ==
    /\ r.pc = "openDoc"
    /\ \E c \in Codes \cup {Throw} :
          analyzeCode(Without(r), lastAnalysis.filePath, lastAnalysis.startLine,
                      lastAnalysis.endLine,
                      IF c = Throw THEN r.code ELSE c, TRUE)
    /\ UNCHANGED <<issued, runVars>>

\* extension.ts:262-276: getClaudeApiKey() has resolved
keyResolved(r) ==
    /\ r.pc = "getKey"
    /\ IF claudeKey
       THEN EnterProgress(r)
       ELSE /\ pending' = Replace(r, [r EXCEPT !.pc = "prompt"])
            /\ ui' = Ui("keyWarning", NoReport)
            /\ UNCHANGED <<analysisCache, lastAnalysis, analysisInProgress,
                           analysisCancelled, claudeKey, now>>
    /\ UNCHANGED <<issued, runVars>>

\* extension.ts:264-276: the user answers (or dismisses) the missing-key prompt
promptAnswered(r) ==
    /\ r.pc = "prompt"
    /\ \E action \in {"Set API Key", "Continue Anyway", Null} :
          IF action = "Continue Anyway"
          THEN EnterProgress(r)
          ELSE /\ pending' = Without(r)
               /\ ui' = IF action = Null THEN ui
                                           ELSE Ui("setKeyCommand", NoReport)
               /\ UNCHANGED <<analysisCache, lastAnalysis, analysisInProgress,
                              analysisCancelled, claudeKey, now>>
    /\ UNCHANGED <<issued, runVars>>

\* extension.ts:288-291: the user cancels the progress notification of r
cancelRequested(r) ==
    /\ r.pc \in StagePcs
    /\ ~r.cancelRequested
    /\ analysisCancelled' = TRUE
    /\ pending' = Replace(r, [r EXCEPT !.cancelRequested = TRUE])
    /\ ui' = Ui("cancelled", NoReport)
    /\ UNCHANGED <<analysisCache, lastAnalysis, analysisInProgress, claudeKey,
                   now, issued, runVars>>

\* mutant: a cancellation check returns without resetting the busy flag
unwindCancelled_keepsFlag(r) ==
    /\ pending' = Without(r)
    /\ UNCHANGED <<analysisCache, lastAnalysis, analysisInProgress,
                   analysisCancelled, claudeKey, now, ui>>

\* extension.ts:294/298/302/306: a cancellation check that finds the flag set
\* (the return passes through the finally block, extension.ts:331-333)
unwindCancelled(r) ==
    /\ analysisInProgress' = FALSE
    /\ pending' = Without(r)
    /\ UNCHANGED <<analysisCache, lastAnalysis, analysisCancelled, claudeKey,
                   now, ui>>

\* mutant: the error is shown without looking at analysisCancelled
catchError_alwaysShows(r) ==
    /\ analysisInProgress' = FALSE
    /\ pending' = Without(r)
    /\ ui' = Ui("error", NoReport)
    /\ UNCHANGED <<analysisCache, lastAnalysis, analysisCancelled, claudeKey, now>>

\* extension.ts:324-333: a stage has thrown
catchError(r) ==
    /\ analysisInProgress' = FALSE
    /\ pending' = Without(r)
    /\ ui' = IF analysisCancelled THEN ui ELSE Ui("error", NoReport)
    /\ UNCHANGED <<analysisCache, lastAnalysis, analysisCancelled, claudeKey, now>>

\* mutant: the summarizer is invoked without the commit list
gitSettles_noCommits(r, res) ==
    /\ r.pc = "git"
    /\    IF res = Throw THEN catchError(r)
          ELSE IF analysisCancelled THEN unwindCancelled(r)
          ELSE /\ pending' = Replace(r, [r EXCEPT !.pc = "code",
                                                  !.gitAnalysis = res])
               /\ ui' = Ui("progress", NoReport)
               /\ UNCHANGED <<analysisCache, lastAnalysis, analysisInProgress,
                              analysisCancelled, claudeKey, now>>
    /\ UNCHANGED <<issued, runVars>>

\* extension.ts:296-300: gitAnalyzer.analyze has settled; codeCommits is the
\* commit list with which codeAnalyzer.analyze is then called
gitSettles(r, res) ==
    /\ r.pc = "git"
    /\    IF res = Throw THEN catchError(r)
          ELSE IF analysisCancelled THEN unwindCancelled(r)
          ELSE /\ pending' = Replace(r, [r EXCEPT !.pc = "code",
                                                  !.gitAnalysis = res,
                                                  !.codeCommits = res])
               /\ ui' = Ui("progress", NoReport)
               /\ UNCHANGED <<analysisCache, lastAnalysis, analysisInProgress,
                              analysisCancelled, claudeKey, now>>
    /\ UNCHANGED <<issued, runVars>>

\* mutant: the summarizer takes the reasoning-service branch without a key
codeGetClient_ignoresKey(r) ==
    /\ r.pc = "code"
    /\ pending' = Replace(r, [r EXCEPT !.pc = "codeClaude"])
    /\ UNCHANGED <<analysisCache, lastAnalysis, analysisInProgress,
                   analysisCancelled, claudeKey, now, ui, issued, runVars>>

\* codeAnalyzer.ts:13-30 and 50-55: getClient() inside the summarizer stage
codeGetClient(r) ==
    /\ r.pc = "code"
    /\ pending' = Replace(r, [r EXCEPT !.pc = IF claudeKey THEN "codeClaude"
                                                          ELSE "codePrompt"])
    /\ UNCHANGED <<analysisCache, lastAnalysis, analysisInProgress,
                   analysisCancelled, claudeKey, now, ui, issued, runVars>>

\* what codeAnalyzer.analyze may settle with (codeAnalyzer.ts:32-60)
codeOutcomes(r) ==
    IF r.pc = "codeClaude" THEN {"claude", "static", Throw}
                           ELSE {"static", Throw}

\* extension.ts:300-304: codeAnalyzer.analyze has settled; githubCommits is
\* the commit list with which githubAnalyzer.analyze is then called
codeSettles(r, res) ==
    /\ r.pc \in {"codeClaude", "codePrompt"}
    /\ res \in codeOutcomes(r)
    /\    IF res = Throw THEN catchError(r)
          ELSE IF analysisCancelled THEN unwindCancelled(r)
          ELSE /\ pending' = Replace(r, [r EXCEPT !.pc = "github",
                                                  !.codeAnalysis = res,
                                                  !.githubCommits = r.gitAnalysis])
               /\ ui' = Ui("progress", NoReport)
               /\ UNCHANGED <<analysisCache, lastAnalysis, analysisInProgress,
                              analysisCancelled, claudeKey, now>>
    /\ UNCHANGED <<issued, runVars>>

\* extension.ts:309-318: the merged report
mergedResult(r, githubAnalysis) ==
    [filePath |-> r.filePath,
     startLine |-> r.startLine,
     endLine |-> r.endLine,
     code |-> r.code,
     codeAnalysis |-> r.codeAnalysis,
     gitAnalysis |-> r.gitAnalysis,
     githubAnalysis |-> githubAnalysis,
     analyzedAt |-> now]

\* extension.ts:304-323 and 331-333: githubAnalyzer.analyze has settled
githubSettles(r, res) ==
    /\ r.pc = "github"
    /\    IF res = Throw THEN catchError(r)
          ELSE IF analysisCancelled THEN unwindCancelled(r)
          ELSE LET result == mergedResult(r, res)
               IN /\ analysisCache' = setCachedResult(r.filePath, r.startLine,
                                                      r.endLine, r.code, result)
                  /\ ui' = Ui("report", result)
                  /\ analysisInProgress' = FALSE
                  /\ pending' = Without(r)
                  /\ UNCHANGED <<lastAnalysis, analysisCancelled, claudeKey, now>>
    /\ UNCHANGED <<issued, runVars>>

gitReturn(r) == \E res \in GitResults \cup {Throw} : gitSettles(r, res)

codeReturn(r) == \E res \in CodeResults \cup {Throw} : codeSettles(r, res)

githubReturn(r) == \E res \in GithubResults \cup {Throw} : githubSettles(r, res)

\* mutant: the size is read after the cache has been cleared
clearCache_sizeAfterClear ==
    /\ analysisCache' = [k \in Keys |-> NoEntry]
    /\ ui' = Ui("cacheCleared",
                [count |-> Cardinality({k \in Keys : analysisCache'[k] # NoEntry})])
    /\ UNCHANGED <<lastAnalysis, analysisInProgress, analysisCancelled,
                   claudeKey, now, pending, issued, runVars>>

\* whatIsTheCode.clearCache, extension.ts:99-103
clearCache ==
    /\ analysisCache' = [k \in Keys |-> NoEntry]
    /\ ui' = Ui("cacheCleared",
                [count |-> Cardinality({k \in Keys : analysisCache[k] # NoEntry})])
    /\ UNCHANGED <<lastAnalysis, analysisInProgress, analysisCancelled,
                   claudeKey, now, pending, issued, runVars>>

\* whatIsTheCode.setClaudeApiKey, extension.ts:116-133: a key is stored
setClaudeApiKeyCommand ==
    /\ ~claudeKey
    /\ claudeKey' = TRUE
    /\ UNCHANGED <<analysisCache, lastAnalysis, analysisInProgress,
                   analysisCancelled, now, pending, ui, issued, runVars>>

\* Date.now() advances
Tick ==
    /\ now < MaxTicks * TickMs
    /\ now' = now + TickMs
    /\ UNCHANGED <<analysisCache, lastAnalysis, analysisInProgress,
                   analysisCancelled, claudeKey, pending, ui, issued, runVars>>

\* the runs of single components are not part of the orchestrator's behaviours
RetryIdle == [pc |-> "off"]

Init ==
    /\ analysisCache = [k \in Keys |-> NoEntry]
    /\ lastAnalysis = NoAnalysis
    /\ analysisInProgress = FALSE
    /\ analysisCancelled = FALSE
    /\ claudeKey \in BOOLEAN
    /\ now = 0
    /\ pending = EmptyBag
    /\ ui = Ui("none", NoReport)
    /\ issued = 0
    /\ retry = RetryIdle
    /\ gh = RetryIdle
    /\ git = RetryIdle
    /\ summarizer = RetryIdle

Next ==
    \/ analyzeCommand
    \/ analyzeFileCommand
    \/ refreshCommand
    \/ \E r \in Invs : refreshOpened(r)
    \/ \E r \in Invs : keyResolved(r)
    \/ \E r \in Invs : promptAnswered(r)
    \/ \E r \in Invs : cancelRequested(r)
    \/ \E r \in Invs : gitReturn(r)
    \/ \E r \in Invs : codeGetClient(r)
    \/ \E r \in Invs : codeReturn(r)
    \/ \E r \in Invs : githubReturn(r)
    \/ clearCache
    \/ setClaudeApiKeyCommand
    \/ Tick

Spec == Init /\ [][Next]_vars

\* extension.ts:296-304: an awaited stage call of some invocation settles
\* (it returns, throws or times out)
StageSettles ==
    \E r \in Invs :
       gitReturn(r) \/ codeGetClient(r) \/ codeReturn(r) \/ githubReturn(r)

\* the steps of the orchestrator within one reading of the clock
NextStages ==
    \/ analyzeCommand
    \/ analyzeFileCommand
    \/ refreshCommand
    \/ \E r \in Invs : refreshOpened(r)
    \/ \E r \in Invs : keyResolved(r)
    \/ \E r \in Invs : promptAnswered(r)
    \/ \E r \in Invs : cancelRequested(r)
    \/ \E r \in Invs : gitReturn(r)
    \/ \E r \in Invs : codeGetClient(r)
    \/ \E r \in Invs : codeReturn(r)
    \/ \E r \in Invs : githubReturn(r)
    \/ clearCache
    \/ setClaudeApiKeyCommand

\* the steps of the orchestrator within one reading of the clock, with
\* requests for two ranges of the file
NextRanges ==
    \/ analyzeCommand
    \/ analyzePartCommand
    \/ analyzeFileCommand
    \/ refreshCommand
    \/ \E r \in Invs : refreshOpened(r)
    \/ \E r \in Invs : keyResolved(r)
    \/ \E r \in Invs : promptAnswered(r)
    \/ \E r \in Invs : cancelRequested(r)
    \/ \E r \in Invs : gitReturn(r)
    \/ \E r \in Invs : codeGetClient(r)
    \/ \E r \in Invs : codeReturn(r)
    \/ \E r \in Invs : githubReturn(r)
    \/ clearCache
    \/ setClaudeApiKeyCommand

\* the orchestrator with two cache keys; a report and the timestamp of its
\* entry are made in one step, so that the clock is not advanced
SpecRanges == Init /\ [][NextRanges]_vars

\* the orchestrator when every awaited stage call settles; the busy flag is
\* never computed from the time, and the clock is not advanced
SpecStagesSettle == Init /\ [][NextStages]_vars /\ WF_vars(StageSettles)

(***************************************************************************)
(* The retry / timeout utility, src/unnamed/part_000, and its use by       *)
(* CodeAnalyzer.analyze, src/src/analyzer/codeAnalyzer.ts:29-61.           *)
(***************************************************************************)
\* upper bound of the maxAttempts policies explored
MaxAttemptsBound == 3

\* defaultOptions, part_000:14-34
defaultInitialDelayMs == 1000
defaultMaxDelayMs == 10000
defaultBackoffMultiplier == 2
\* utils/constants.ts
API_MAX_RETRIES == 3

\* the policies withRetry is run with
InitialDelays == {defaultInitialDelayMs, 2 * defaultMaxDelayMs}
MaxDelays == {defaultMaxDelayMs, defaultInitialDelayMs + 500}
BackoffMultipliers == {0, 1, defaultBackoffMultiplier}
Classifiers == {"default", "github"}

\* Error messages are sequences of characters.
\* "Request timeout" (constants.ts:32, thrown by makeGitHubRequest)
MsgRequestTimeout ==
    <<"R", "e", "q", "u", "e", "s", "t", " ", "t", "i", "m", "e",
        "o", "u", "t">>

\* "API rate limit exceeded or insufficient permissions" (githubAnalyzer.ts:192)
MsgRateLimit ==
    <<"A", "P", "I", " ", "r", "a", "t", "e", " ", "l", "i", "m",
        "i", "t", " ", "e", "x", "c", "e", "e", "d", "e", "d",
        " ", "o", "r", " ", "i", "n", "s", "u", "f", "f", "i",
        "c", "i", "e", "n", "t", " ", "p", "e", "r", "m", "i",
        "s", "s", "i", "o", "n", "s">>

\* "Invalid GitHub token" (githubAnalyzer.ts:190)
MsgInvalidToken ==
    <<"I", "n", "v", "a", "l", "i", "d", " ", "G", "i", "t", "H",
        "u", "b", " ", "t", "o", "k", "e", "n">>

\* "socket hang up" (a connection error of the https module)
MsgSocketHangUp ==
    <<"s", "o", "c", "k", "e", "t", " ", "h", "a", "n", "g", " ",
        "u", "p">>

\* "Claude API request timed out" (codeAnalyzer.ts:208)
MsgClaudeTimeout ==
    <<"C", "l", "a", "u", "d", "e", " ", "A", "P", "I", " ", "r",
        "e", "q", "u", "e", "s", "t", " ", "t", "i", "m", "e",
        "d", " ", "o", "u", "t">>

\* "529 Overloaded" (the reasoning service's overloaded_error)
MsgOverloaded ==
    <<"5", "2", "9", " ", "O", "v", "e", "r", "l", "o", "a", "d",
        "e", "d">>

\* "Failed to parse Claude analysis" (codeAnalyzer.ts:228)
MsgParseFailed ==
    <<"F", "a", "i", "l", "e", "d", " ", "t", "o", " ", "p", "a",
        "r", "s", "e", " ", "C", "l", "a", "u", "d", "e", " ",
        "a", "n", "a", "l", "y", "s", "i", "s">>

\* "Unexpected response type" (codeAnalyzer.ts:213)
MsgUnexpectedType ==
    <<"U", "n", "e", "x", "p", "e", "c", "t", "e", "d", " ", "r",
        "e", "s", "p", "o", "n", "s", "e", " ", "t", "y", "p", "e">>

\* "Cannot read properties of null (reading 'level')": the TypeError of
\* validateRisks for a null element of risks (codeAnalyzer.ts:283-284)
MsgTypeError ==
    <<"C", "a", "n", "n", "o", "t", " ", "r", "e", "a", "d", " ",
        "p", "r", "o", "p", "e", "r", "t", "i", "e", "s", " ", "o",
        "f", " ", "n", "u", "l", "l", " ", "(", "r", "e", "a", "d",
        "i", "n", "g", " ", "'", "l", "e", "v", "e", "l", "'", ")">>

\* "GitHub API error: 500" (githubAnalyzer.ts:201)
MsgApiError500 ==
    <<"G", "i", "t", "H", "u", "b", " ", "A", "P", "I", " ", "e",
        "r", "r", "o", "r", ":", " ", "5", "0", "0">>

\* "GitHub API error: 503" (githubAnalyzer.ts:201)
MsgApiError503 ==
    <<"G", "i", "t", "H", "u", "b", " ", "A", "P", "I", " ", "e",
        "r", "r", "o", "r", ":", " ", "5", "0", "3">>

\* "Failed to parse response" (githubAnalyzer.ts:192)
MsgParseResponseFailed ==
    <<"F", "a", "i", "l", "e", "d", " ", "t", "o", " ", "p", "a",
        "r", "s", "e", " ", "r", "e", "s", "p", "o", "n", "s", "e">>

\* "Unknown error" (part_000:41)
MsgUnknownError ==
    <<"U", "n", "k", "n", "o", "w", "n", " ", "e", "r", "r", "o",
        "r">>

\* the errors an operation may throw, by name
Errors == {"RequestTimeout", "RateLimit", "InvalidToken", "SocketHangUp",
           "ClaudeTimeout", "Overloaded", "ParseFailed"}

message(e) ==
    CASE e = "RequestTimeout" -> MsgRequestTimeout
      [] e = "RateLimit" -> MsgRateLimit
      [] e = "InvalidToken" -> MsgInvalidToken
      [] e = "SocketHangUp" -> MsgSocketHangUp
      [] e = "ClaudeTimeout" -> MsgClaudeTimeout
      [] e = "Overloaded" -> MsgOverloaded
      [] e = "ParseFailed" -> MsgParseFailed
      [] e = "UnexpectedType" -> MsgUnexpectedType
      [] e = "TypeError" -> MsgTypeError
      [] e = "ApiError500" -> MsgApiError500
      [] e = "ApiError503" -> MsgApiError503
      [] e = "ParseResponseFailed" -> MsgParseResponseFailed
      [] OTHER -> MsgUnknownError

UpperCase == <<"A", "B", "C", "D", "E", "F", "G", "H", "I", "J", "K", "L", "M",
               "N", "O", "P", "Q", "R", "S", "T", "U", "V", "W", "X", "Y", "Z">>
LowerCase == <<"a", "b", "c", "d", "e", "f", "g", "h", "i", "j", "k", "l", "m",
               "n", "o", "p", "q", "r", "s", "t", "u", "v", "w", "x", "y", "z">>

\* String.prototype.toLowerCase
toLowerCase(str) ==
    [k \in DOMAIN str |->
        IF \E u \in DOMAIN UpperCase : UpperCase[u] = str[k]
        THEN LowerCase[CHOOSE u \in DOMAIN UpperCase : UpperCase[u] = str[k]]
        ELSE str[k]]

\* String.prototype.includes
includes(str, pat) ==
    \E k \in 0..(Len(str) - Len(pat)) : SubSeq(str, k + 1, k + Len(pat)) = pat

Pat_timeout == <<"t", "i", "m", "e", "o", "u", "t">>
Pat_rate_limit == <<"r", "a", "t", "e", " ", "l", "i", "m", "i", "t">>
Pat_econnreset == <<"e", "c", "o", "n", "n", "r", "e", "s", "e", "t">>
Pat_enotfound == <<"e", "n", "o", "t", "f", "o", "u", "n", "d">>
Pat_socket_hang_up == <<"s", "o", "c", "k", "e", "t", " ", "h", "a", "n", "g", " ",
           "u", "p">>
Pat_overloaded == <<"o", "v", "e", "r", "l", "o", "a", "d", "e", "d">>
Pat_503 == <<"5", "0", "3">>
Pat_529 == <<"5", "2", "9">>

\* defaultOptions.retryableErrors, part_000:19-32
defaultRetryableErrors(e) ==
    LET msg == toLowerCase(message(e))
    IN \/ includes(msg, Pat_timeout)
       \/ includes(msg, Pat_rate_limit)
       \/ includes(msg, Pat_econnreset)
       \/ includes(msg, Pat_enotfound)
       \/ includes(msg, Pat_socket_hang_up)
       \/ includes(msg, Pat_overloaded)
       \/ includes(msg, Pat_503)
       \/ includes(msg, Pat_529)

\* mutant: HTTP 503 is not classified as retryable
githubRetryableErrors_without503(e) ==
    LET msg == toLowerCase(message(e))
    IN \/ includes(msg, Pat_timeout)
       \/ includes(msg, Pat_rate_limit)

\* the classifier getPRsForCommit passes, githubAnalyzer.ts:131-134
githubRetryableErrors(e) ==
    LET msg == toLowerCase(message(e))
    IN \/ includes(msg, Pat_timeout)
       \/ includes(msg, Pat_rate_limit)
       \/ includes(msg, Pat_503)

\* opts.retryableErrors(lastError), part_000:50
retryableErrors(classifier, e) ==
    IF classifier = "github" THEN githubRetryableErrors(e)
                             ELSE defaultRetryableErrors(e)

\* mutant: the last attempt is recognised one attempt early
isLastAttempt_offByOne(attempt, maxAttempts) == attempt = maxAttempts - 1

\* part_000:49
isLastAttempt(attempt, maxAttempts) == attempt = maxAttempts

Min(a, b) == IF a <= b THEN a ELSE b

\* mutant: the delay is not capped
nextDelay_uncapped(delay, backoffMultiplier, maxDelayMs) ==
    delay * backoffMultiplier

\* part_000:62
nextDelay(delay, backoffMultiplier, maxDelayMs) ==
    Min(delay * backoffMultiplier, maxDelayMs)

\* what fn may fulfil with
FnValues == {"value1", "value2"}

\* a call of withRetry that has not started to run; onRetry tells whether
\* the hook passed returns or throws (the default hook and the hook of
\* CodeAnalyzer.analyze return)
RetryCall(caller, maxAttempts, initialDelayMs, maxDelayMs, multiplier, classifier) ==
    [pc |-> "start", caller |-> caller, maxAttempts |-> maxAttempts,
     initialDelayMs |-> initialDelayMs, maxDelayMs |-> maxDelayMs,
     backoffMultiplier |-> multiplier, classifier |-> classifier,
     attempt |-> 0, delay |-> 0, lastError |-> "UnknownError", calls |-> 0,
     thrown |-> <<>>, sleeps |-> <<>>, onRetryCalls |-> <<>>,
     onRetry |-> "returns", hookThrew |-> FALSE, value |-> Null,
     analysis |-> Null]

\* the calls of withRetry with an arbitrary operation and policy
GenericCalls ==
    {RetryCall("generic", m, d, x, b, c) :
        m \in 0..MaxAttemptsBound, d \in InitialDelays, x \in MaxDelays,
        b \in BackoffMultipliers, c \in Classifiers}

\* the calls of withRetry with an arbitrary operation, policy and hook
HookCalls ==
    {[c EXCEPT !.onRetry = h] : c \in GenericCalls, h \in {"returns", "throws"}}

\* the call made by CodeAnalyzer.analyze, codeAnalyzer.ts:35-43
AnalyzeCall ==
    RetryCall("analyze", API_MAX_RETRIES, defaultInitialDelayMs,
              defaultMaxDelayMs, defaultBackoffMultiplier, "default")

\* the calls of CodeAnalyzer.analyze that reach withRetry, with the arguments
\* of analyze and the arguments analyzeStatic is called with, if it is
AnalyzeCalls ==
    {AnalyzeCall @@ [code |-> c, filePath |-> f, staticArgs |-> NoResult] :
        c \in Codes, f \in Files}

\* part_000:40-45: withRetry up to the first call of fn
withRetryStart ==
    /\ retry.pc = "start"
    /\ retry' = IF 1 <= retry.maxAttempts
                THEN [retry EXCEPT !.pc = "call", !.attempt = 1, !.calls = 1,
                                   !.delay = retry.initialDelayMs]
                ELSE [retry EXCEPT !.pc = "rejected", !.attempt = 1,
                                   !.delay = retry.initialDelayMs]
    /\ UNCHANGED <<orchVars, gh, git, summarizer>>

\* part_000:46: fn() fulfils
fnResolves ==
    /\ retry.pc = "call"
    /\ \E v \in FnValues : retry' = [retry EXCEPT !.pc = "resolved", !.value = v]
    /\ UNCHANGED <<orchVars, gh, git, summarizer>>

\* mutant: the hook is called before the attempt is found to be decisive
catchInRetry_hookFirst(e) ==
    IF isLastAttempt(retry.attempt, retry.maxAttempts)
       \/ ~retryableErrors(retry.classifier, e)
    THEN [retry EXCEPT !.pc = "rejected", !.lastError = e,
                       !.thrown = Append(@, e),
                       !.onRetryCalls = Append(@, retry.attempt)]
    ELSE IF retry.onRetry = "throws"
    THEN [retry EXCEPT !.pc = "rejected", !.lastError = e,
                       !.thrown = Append(@, e),
                       !.onRetryCalls = Append(@, retry.attempt),
                       !.hookThrew = TRUE]
    ELSE [retry EXCEPT !.pc = "sleep", !.lastError = e,
                       !.thrown = Append(@, e),
                       !.onRetryCalls = Append(@, retry.attempt),
                       !.sleeps = Append(@, retry.delay)]

\* part_000:47-62: the catch block of withRetry, fn() having rejected with
\* e; an exception of opts.onRetry (57) leaves the catch block and the
\* function: withRetry rejects with it (hookThrew)
catchInRetry(e) ==
    IF isLastAttempt(retry.attempt, retry.maxAttempts)
       \/ ~retryableErrors(retry.classifier, e)
    THEN [retry EXCEPT !.pc = "rejected", !.lastError = e,
                       !.thrown = Append(@, e)]
    ELSE IF retry.onRetry = "throws"
    THEN [retry EXCEPT !.pc = "rejected", !.lastError = e,
                       !.thrown = Append(@, e),
                       !.onRetryCalls = Append(@, retry.attempt),
                       !.hookThrew = TRUE]
    ELSE [retry EXCEPT !.pc = "sleep", !.lastError = e,
                       !.thrown = Append(@, e),
                       !.onRetryCalls = Append(@, retry.attempt),
                       !.sleeps = Append(@, retry.delay)]

\* the errors fn may reject with; analyzeWithClaude rejects with the
\* service's errors and with the failures of its own response handling
\* (codeAnalyzer.ts:211-243)
fnErrors ==
    IF retry.caller = "analyze"
    THEN {"Overloaded", "ParseFailed", "UnexpectedType", "TypeError"}
    ELSE Errors

\* fn() rejects
fnRejects ==
    /\ retry.pc = "call"
    /\ \E e \in fnErrors : retry' = catchInRetry(e)
    /\ UNCHANGED <<orchVars, gh, git, summarizer>>

\* withTimeout, part_000:75-95, as called at codeAnalyzer.ts:201-209: the
\* timer fires before messages.create settles
timerFires ==
    /\ retry.pc = "call"
    /\ retry.caller = "analyze"
    /\ retry' = catchInRetry("ClaudeTimeout")
    /\ UNCHANGED <<orchVars, gh, git, summarizer>>

\* part_000:61-62 and 44-46: the sleep ends, the next iteration calls fn
sleepDone ==
    /\ retry.pc = "sleep"
    /\ LET d == nextDelay(retry.delay, retry.backoffMultiplier, retry.maxDelayMs)
       IN retry' = IF retry.attempt + 1 <= retry.maxAttempts
                   THEN [retry EXCEPT !.pc = "call", !.delay = d,
                                      !.attempt = @ + 1, !.calls = @ + 1]
                   ELSE [retry EXCEPT !.pc = "rejected", !.delay = d,
                                      !.attempt = @ + 1]
    /\ UNCHANGED <<orchVars, gh, git, summarizer>>

\* mutant: the rejection of withRetry escapes analyze
analyzeReturns_rethrows ==
    /\ retry.caller = "analyze"
    /\ retry.pc \in {"resolved", "rejected"}
    /\ retry.analysis = Null
    /\ retry' = [retry EXCEPT !.analysis =
                    IF retry.pc = "resolved" THEN "claude" ELSE Throw]
    /\ UNCHANGED <<orchVars, gh, git, summarizer>>

\* codeAnalyzer.ts:35-49: analyze returns what withRetry resolved with, or
\* on rejection the result of analyzeStatic(code, filePath)
analyzeReturns ==
    /\ retry.caller = "analyze"
    /\ retry.pc \in {"resolved", "rejected"}
    /\ retry.analysis = Null
    /\ retry' = IF retry.pc = "resolved"
                THEN [retry EXCEPT !.analysis = "claude"]
                ELSE [retry EXCEPT !.analysis = "static",
                                   !.staticArgs = [code |-> retry.code,
                                                   filePath |-> retry.filePath]]
    /\ UNCHANGED <<orchVars, gh, git, summarizer>>

InitRetry ==
    /\ analysisCache = [k \in Keys |-> NoEntry]
    /\ lastAnalysis = NoAnalysis
    /\ analysisInProgress = FALSE
    /\ analysisCancelled = FALSE
    /\ claudeKey = TRUE
    /\ now = 0
    /\ pending = EmptyBag
    /\ ui = Ui("none", NoReport)
    /\ issued = 0
    /\ retry \in GenericCalls \cup AnalyzeCalls
    /\ gh = RetryIdle
    /\ git = RetryIdle
    /\ summarizer = RetryIdle

NextRetry ==
    \/ withRetryStart
    \/ fnResolves
    \/ fnRejects
    \/ timerFires
    \/ sleepDone
    \/ analyzeReturns

SpecRetry == InitRetry /\ [][NextRetry]_vars

\* withRetry with any hook
InitRetryHook ==
    /\ analysisCache = [k \in Keys |-> NoEntry]
    /\ lastAnalysis = NoAnalysis
    /\ analysisInProgress = FALSE
    /\ analysisCancelled = FALSE
    /\ claudeKey = TRUE
    /\ now = 0
    /\ pending = EmptyBag
    /\ ui = Ui("none", NoReport)
    /\ issued = 0
    /\ retry \in HookCalls \cup AnalyzeCalls
    /\ gh = RetryIdle
    /\ git = RetryIdle
    /\ summarizer = RetryIdle

SpecRetryHook == InitRetryHook /\ [][NextRetry]_vars

(***************************************************************************)
(* withTimeout, src/unnamed/part_000:75-95.  A run of withTimeout is held  *)
(* in retry: the promise it returns, the operation it wraps, its timer and *)
(* the reaction jobs of the operation's promise.  Reaction jobs are        *)
(* microtasks: once queued they run before any timer callback.             *)
(***************************************************************************)
\* utils/constants.ts:6
CLAUDE_API_TIMEOUT_MS == 60000

\* what the wrapped operation may fulfil with
OperationValues == {"response1", "response2"}

\* the default and the caller's timeout message (part_000:78,
\* codeAnalyzer.ts:208)
TimeoutMessages == {"Operation timed out", "Claude API request timed out"}

\* a fulfilment with value v
Fulfilled(v) == [state |-> "fulfilled", from |-> "operation", with |-> v]

\* a rejection with the error e the operation has thrown
Rejected(e) == [state |-> "rejected", from |-> "operation", with |-> e]

\* part_000:82: a rejection with new Error(timeoutMessage)
TimedOut(timeoutMessage) ==
    [state |-> "rejected", from |-> "timer", with |-> timeoutMessage]

\* a promise that has not settled
Unsettled == [state |-> "pending"]

\* what the operation settles with
OperationOutcomes ==
    {Fulfilled(v) : v \in OperationValues} \cup {Rejected(e) : e \in Errors}

\* a call withTimeout(promise, timeoutMs, timeoutMessage) that has run the
\* executor (part_000:80-93): the timer is set and the reactions are
\* registered; promise may have settled before the call
TimeoutCall(promise, timeoutMs, timeoutMessage) ==
    [pc |-> "withTimeout", caller |-> "withTimeout", promise |-> promise,
     timeoutMs |-> timeoutMs, timeoutMessage |-> timeoutMessage,
     timer |-> "set",
     job |-> IF promise = Unsettled THEN "none" ELSE "then",
     first |-> IF promise = Unsettled THEN "none" ELSE "operation",
     result |-> Unsettled]

TimeoutCalls ==
    {TimeoutCall(p, t, m) :
        p \in {Unsettled} \cup OperationOutcomes,
        t \in {0, CLAUDE_API_TIMEOUT_MS}, m \in TimeoutMessages}

\* mutant: a later resolve or reject replaces the settled result
settle_lastWins(w, outcome) == [w EXCEPT !.result = outcome]

\* resolve / reject of the promise withTimeout returns: it settles once
settle(w, outcome) ==
    IF w.result = Unsettled THEN [w EXCEPT !.result = outcome] ELSE w

\* clearTimeout(timer), part_000:87 and 91
clearTimeout(w) ==
    IF w.timer = "set" THEN [w EXCEPT !.timer = "cleared"] ELSE w

\* the wrapped operation settles: the reaction of .then is queued
operationSettles ==
    /\ retry.pc = "withTimeout"
    /\ retry.promise = Unsettled
    /\ \E outcome \in OperationOutcomes :
          retry' = [retry EXCEPT !.promise = outcome, !.job = "then",
                                 !.first = IF @ = "none" THEN "operation" ELSE @]
    /\ UNCHANGED <<orchVars, gh, git, summarizer>>

\* part_000:86-89: the reaction of .then runs: on fulfilment its callback,
\* on rejection the promise it returns rejects and queues the reaction of
\* .catch
thenReaction ==
    /\ retry.pc = "withTimeout"
    /\ retry.job = "then"
    /\ retry' = IF retry.promise.state = "fulfilled"
                THEN [settle(clearTimeout(retry), retry.promise)
                         EXCEPT !.job = "done"]
                ELSE [retry EXCEPT !.job = "catch"]
    /\ UNCHANGED <<orchVars, gh, git, summarizer>>

\* part_000:90-93: the reaction of .catch runs
catchReaction ==
    /\ retry.pc = "withTimeout"
    /\ retry.job = "catch"
    /\ retry' = [settle(clearTimeout(retry), retry.promise) EXCEPT !.job = "done"]
    /\ UNCHANGED <<orchVars, gh, git, summarizer>>

\* part_000:81-83: the timer callback runs; timers run when no reaction job
\* is queued
timeoutElapses ==
    /\ retry.pc = "withTimeout"
    /\ retry.timer = "set"
    /\ retry.job \notin {"then", "catch"}
    /\ retry' = [settle(retry, TimedOut(retry.timeoutMessage))
                    EXCEPT !.timer = "fired",
                           !.first = IF @ = "none" THEN "timer" ELSE @]
    /\ UNCHANGED <<orchVars, gh, git, summarizer>>

InitTimeout ==
    /\ analysisCache = [k \in Keys |-> NoEntry]
    /\ lastAnalysis = NoAnalysis
    /\ analysisInProgress = FALSE
    /\ analysisCancelled = FALSE
    /\ claudeKey = TRUE
    /\ now = 0
    /\ pending = EmptyBag
    /\ ui = Ui("none", NoReport)
    /\ issued = 0
    /\ retry \in TimeoutCalls
    /\ gh = RetryIdle
    /\ git = RetryIdle
    /\ summarizer = RetryIdle

NextTimeout ==
    \/ operationSettles
    \/ thenReaction
    \/ catchReaction
    \/ timeoutElapses

SpecTimeout == InitTimeout /\ [][NextTimeout]_vars

(***************************************************************************)
(* The review-link resolver, src/src/analyzer/githubAnalyzer.ts.           *)
(***************************************************************************)
\* utils/constants.ts
MAX_COMMITS_TO_SEARCH_PRS == 20
PR_BATCH_SIZE == 5

\* the longest commit list handed to GitHubAnalyzer.analyze
MaxCommits == 6
\* the largest value of the maxPRsToShow setting
MaxPRsBound == 2

\* the outputs of "git remote get-url origin" explored
UrlSsh ==
    <<"g", "i", "t", "@", "g", "i", "t", "h", "u", "b", ".", "c",
        "o", "m", ":", "o", "/", "r", ".", "g", "i", "t">>
UrlHttps ==
    <<"h", "t", "t", "p", "s", ":", "/", "/", "g", "i", "t", "h",
        "u", "b", ".", "c", "o", "m", "/", "o", "/", "r">>
UrlGitlab ==
    <<"h", "t", "t", "p", "s", ":", "/", "/", "g", "i", "t", "l",
        "a", "b", ".", "c", "o", "m", "/", "o", "/", "r", ".", "g",
        "i", "t">>
UrlNoRepo ==
    <<"h", "t", "t", "p", "s", ":", "/", "/", "g", "i", "t", "h",
        "u", "b", ".", "c", "o", "m", "/", "o">>

RemoteUrls == {"ssh", "https", "gitlab", "norepo"}

urlText(u) ==
    CASE u = "ssh" -> UrlSsh
      [] u = "https" -> UrlHttps
      [] u = "gitlab" -> UrlGitlab
      [] OTHER -> UrlNoRepo

PrefixSsh ==
    <<"g", "i", "t", "@", "g", "i", "t", "h", "u", "b", ".", "c",
        "o", "m", ":">>
PrefixHttp ==
    <<"h", "t", "t", "p", ":", "/", "/", "g", "i", "t", "h", "u",
        "b", ".", "c", "o", "m", "/">>
PrefixHttps ==
    <<"h", "t", "t", "p", "s", ":", "/", "/", "g", "i", "t", "h",
        "u", "b", ".", "c", "o", "m", "/">>

\* the pattern pat occurs in str at position p
StartsAt(str, p, pat) ==
    /\ p + Len(pat) - 1 <= Len(str)
    /\ SubSeq(str, p, p + Len(pat) - 1) = pat

\* a greedy character class [^stop]+ applied at position p: the last position
\* of the longest run of characters outside stop (p - 1 when the run is empty)
RunEnd(str, p, stop) ==
    LET ends == {q \in (p - 1)..Len(str) : \A k \in p..q : str[k] \notin stop}
    IN CHOOSE q \in ends : \A q2 \in ends : q2 <= q

\* prefix([^/]+)\/([^stop]+) matched with the prefix at position p
GroupsAt(str, p, prefix, stop) ==
    LET o1 == p + Len(prefix)
        oe == RunEnd(str, o1, {"/"})
        r1 == oe + 2
        re == RunEnd(str, r1, stop)
    IN IF /\ StartsAt(str, p, prefix)
          /\ oe >= o1
          /\ oe + 1 <= Len(str) /\ str[oe + 1] = "/"
          /\ re >= r1
       THEN {[owner |-> SubSeq(str, o1, oe), repo |-> SubSeq(str, r1, re)]}
       ELSE {}

\* String.prototype.match for one of the two patterns: the leftmost match
Match(str, prefixes, stop) ==
    LET at(p) == UNION {GroupsAt(str, p, prefix, stop) : prefix \in prefixes}
        hits == {p \in 1..Len(str) : at(p) # {}}
    IN IF hits = {} THEN {}
       ELSE at(CHOOSE p \in hits : \A p2 \in hits : p <= p2)

NoRepo == [absent |-> "repo"]

\* githubAnalyzer.ts:67-81
parseGitHubUrl(url) ==
    LET sshMatch == Match(url, {PrefixSsh}, {"."})
        httpsMatch == Match(url, {PrefixHttp, PrefixHttps}, {"/", "."})
    IN IF sshMatch # {} THEN CHOOSE m \in sshMatch : TRUE
       ELSE IF httpsMatch # {} THEN CHOOSE m \in httpsMatch : TRUE
       ELSE NoRepo

\* `https://github.com/${owner}/${repo}`
repoUrlOf(repoInfo) == PrefixHttps \o repoInfo.owner \o <<"/">> \o repoInfo.repo

\* utils/constants.ts:26-27 and githubAnalyzer.ts:40
ErrNoGitRemote == "No git remote found"
ErrNotGithubRepo == "Not a GitHub repository"
ErrNoToken == "GitHub token not configured. Use \"What is the Code: Set GitHub Token\" command to enable PR fetching."

\* the PR objects of the remote-hosting service that the responses are made
\* of: number, raw state, merged_at, and the time value of created_at
RawPRs ==
    {[number |-> 1, state |-> "closed", merged_at |-> "2024-03-02T10:00:00Z", created_at |-> 10],
     [number |-> 2, state |-> "open", merged_at |-> Null, created_at |-> 30],
     [number |-> 3, state |-> "closed", merged_at |-> Null, created_at |-> 5],
     [number |-> 4, state |-> "open", merged_at |-> "2024-05-01T08:30:00Z", created_at |-> 30]}

RawPR(n) == CHOOSE pr \in RawPRs : pr.number = n

\* the bodies of the 200 responses of /repos/{owner}/{repo}/commits/{sha}/pulls
Responses200 == {<<RawPR(2)>>, <<RawPR(4), RawPR(2), RawPR(1), RawPR(3)>>}

\* what a request settles with: a status code of the response, or the local
\* deadline (githubAnalyzer.ts:210-213)
Faults == {"401", "403", "500", "timeout"}

\* further failures: HTTP 503, and HTTP 200 with a body that is not JSON
\* (githubAnalyzer.ts:189-193)
BodyFaults == {"503", "unparseable"}

\* githubAnalyzer.ts:196-202 and 212: the error makeGitHubRequest rejects with
statusError(status) ==
    CASE status = "401" -> "InvalidToken"
      [] status = "403" -> "RateLimit"
      [] status = "timeout" -> "RequestTimeout"
      [] status = "503" -> "ApiError503"
      [] status = "unparseable" -> "ParseResponseFailed"
      [] OTHER -> "ApiError500"

\* the truthiness of a value of merged_at
truthy(x) == x \notin {Null, ""}

\* mutant: the raw state is reported
toPullRequestInfo_rawState(pr) ==
    [number |-> pr.number, state |-> pr.state, createdAt |-> pr.created_at,
     mergedAt |-> pr.merged_at]

\* githubAnalyzer.ts:142-152 (title, url, author, description and labels are
\* copied and play no part here)
toPullRequestInfo(pr) ==
    [number |-> pr.number,
     state |-> IF truthy(pr.merged_at) THEN "merged" ELSE pr.state,
     createdAt |-> pr.created_at,
     mergedAt |-> pr.merged_at]

\* mutant: a PR is added whether or not its number is already in the map
addPR_noDedup(prsMap, pr, maxPRs) ==
    IF Len(prsMap) < maxPRs THEN Append(prsMap, pr) ELSE prsMap

\* githubAnalyzer.ts:104-106: prsMap as the sequence of its values in
\* insertion order
addPR(prsMap, pr, maxPRs) ==
    IF (\A k \in DOMAIN prsMap : prsMap[k].number # pr.number)
       /\ Len(prsMap) < maxPRs
    THEN Append(prsMap, pr)
    ELSE prsMap

\* githubAnalyzer.ts:103-107: the PRs of one fulfilled lookup
RECURSIVE addPRs(_, _, _)
addPRs(prsMap, prs, maxPRs) ==
    IF prs = <<>> THEN prsMap
    ELSE addPRs(addPR(prsMap, Head(prs), maxPRs), Tail(prs), maxPRs)

\* mutant: a batch with a failed lookup contributes nothing
collect_allOrNothing(prsMap, results, from, to, maxPRs) ==
    IF \E k \in from..to : results[k].error # Null THEN prsMap
    ELSE addPRs(prsMap, results[from].value, maxPRs)

\* githubAnalyzer.ts:101-109: the results of a batch, lookups from..to
RECURSIVE collect(_, _, _, _, _)
collect(prsMap, results, from, to, maxPRs) ==
    IF from > to THEN prsMap
    ELSE collect(IF results[from].status = "fulfilled"
                 THEN addPRs(prsMap, results[from].value, maxPRs)
                 ELSE prsMap,
                 results, from + 1, to, maxPRs)

\* Array.prototype.sort with the comparator of githubAnalyzer.ts:112-114
\* (stable): insertion of pr into a list sorted by createdAt descending
RECURSIVE insertByCreatedAt(_, _)
insertByCreatedAt(sorted, pr) ==
    IF sorted = <<>> THEN <<pr>>
    ELSE IF Head(sorted).createdAt >= pr.createdAt
         THEN <<Head(sorted)>> \o insertByCreatedAt(Tail(sorted), pr)
         ELSE <<pr>> \o sorted

RECURSIVE sortByCreatedAt(_)
sortByCreatedAt(prs) ==
    IF prs = <<>> THEN <<>>
    ELSE insertByCreatedAt(sortByCreatedAt(SubSeq(prs, 1, Len(prs) - 1)),
                           prs[Len(prs)])

\* a call of getPRsForCommit that has sent its first request
NewLookup == [status |-> "pending", attempt |-> 1]

\* a call of GitHubAnalyzer.analyze: remoteUrl is the name of the origin URL
\* or Null, token whether getGithubToken() yields one, commits the length of
\* the commit list, fault the way the remote fails when it does
GithubCall(remoteUrl, token, commits, maxPRs, fault) ==
    [pc |-> "getRemoteUrl", remoteUrl |-> remoteUrl, token |-> token,
     commits |-> commits, maxPRs |-> maxPRs, fault |-> fault,
     repoInfo |-> NoRepo, i |-> 0, lookups |-> <<>>, prsMap |-> <<>>,
     requested |-> FALSE, batches |-> 0, failed |-> {}, found |-> {},
     result |-> NoResult]

\* the calls explored: every origin and token with one commit, every
\* commit list, limit and fault with a GitHub origin and a token, and a
\* commit list one longer than MAX_COMMITS_TO_SEARCH_PRS
GithubCalls ==
    {GithubCall(u, t, 1, MaxPRsBound, "401") :
        u \in RemoteUrls \cup {Null}, t \in BOOLEAN}
    \cup {GithubCall("https", TRUE, n, m, f) :
             n \in 0..MaxCommits, m \in 0..MaxPRsBound, f \in Faults}
    \cup {GithubCall("https", TRUE, MAX_COMMITS_TO_SEARCH_PRS + 1, 1, "timeout")}
    \cup {GithubCall("https", TRUE, 1, MaxPRsBound, f) : f \in BodyFaults}

\* githubAnalyzer.ts:12-30: getRemoteUrl() has resolved
ghRemoteUrlResolved ==
    /\ gh.pc = "getRemoteUrl"
    /\ gh' = IF gh.remoteUrl = Null
             THEN [gh EXCEPT !.pc = "returned",
                             !.result = [repoUrl |-> Null, pullRequests |-> <<>>,
                                         error |-> ErrNoGitRemote]]
             ELSE LET repoInfo == parseGitHubUrl(urlText(gh.remoteUrl))
                  IN IF repoInfo = NoRepo
                     THEN [gh EXCEPT !.pc = "returned",
                                     !.result = [repoUrl |-> urlText(gh.remoteUrl),
                                                 pullRequests |-> <<>>,
                                                 error |-> ErrNotGithubRepo]]
                     ELSE [gh EXCEPT !.pc = "getToken", !.repoInfo = repoInfo]
    /\ UNCHANGED <<orchVars, retry, git, summarizer>>

\* mutant: the whole commit list is handed to getPullRequestsForCommits
Searched_wholeList(g) == g.commits

\* the commits handed to getPullRequestsForCommits, githubAnalyzer.ts:48
Searched(g) == IF g.commits <= MAX_COMMITS_TO_SEARCH_PRS
               THEN g.commits ELSE MAX_COMMITS_TO_SEARCH_PRS

\* githubAnalyzer.ts:93-99 and 112-114, 53-56: the head of the loop of
\* getPullRequestsForCommits: the next batch of lookups is started, or the
\* loop ends and analyze returns the sorted PRs
nextBatch(g) ==
    IF g.i < Searched(g) /\ Len(g.prsMap) < g.maxPRs
    THEN LET last == IF g.i + PR_BATCH_SIZE <= Searched(g)
                     THEN g.i + PR_BATCH_SIZE ELSE Searched(g)
         IN [g EXCEPT !.pc = "allSettled",
                      !.lookups = [k \in (g.i + 1)..last |-> NewLookup],
                      !.requested = TRUE,
                      !.batches = @ + 1]
    ELSE [g EXCEPT !.pc = "returned",
                   !.lookups = <<>>,
                   !.result = [repoUrl |-> repoUrlOf(g.repoInfo),
                               pullRequests |-> sortByCreatedAt(g.prsMap),
                               error |-> Null]]

\* mutant: the lookups are started without a token
ghTokenResolved_ignoresToken ==
    /\ gh.pc = "getToken"
    /\ gh' = nextBatch(gh)
    /\ UNCHANGED <<orchVars, retry, git, summarizer>>

\* githubAnalyzer.ts:32-43: getGithubToken() has resolved
ghTokenResolved ==
    /\ gh.pc = "getToken"
    /\ gh' = IF ~gh.token
             THEN [gh EXCEPT !.pc = "returned",
                             !.result = [repoUrl |-> repoUrlOf(gh.repoInfo),
                                         pullRequests |-> <<>>,
                                         error |-> ErrNoToken]]
             ELSE nextBatch(gh)
    /\ UNCHANGED <<orchVars, retry, git, summarizer>>

\* githubAnalyzer.ts:153-155: withRetry has rejected with e
lookupRejected(lookup, e) ==
    [status |-> "fulfilled", value |-> <<>>, error |-> e]

\* githubAnalyzer.ts:138-152: withRetry has resolved with data
lookupResolved(lookup, data) ==
    [status |-> "fulfilled",
     value |-> [k \in DOMAIN data |-> toPullRequestInfo(data[k])],
     error |-> Null]

\* githubAnalyzer.ts:127-155 with part_000:44-62 and githubAnalyzer.ts:186-213:
\* a request of the lookup for commit k settles
ghResponse(k, status, data) ==
    /\ gh.pc = "allSettled"
    /\ k \in DOMAIN gh.lookups
    /\ gh.lookups[k].status = "pending"
    /\ LET lookup == gh.lookups[k]
           e == statusError(status)
       IN gh' =
            IF status = "200"
            THEN [gh EXCEPT !.lookups[k] = lookupResolved(lookup, data),
                            !.found = @ \cup {data[j].number : j \in DOMAIN data}]
            ELSE IF status = "404"
            THEN [gh EXCEPT !.lookups[k] = lookupResolved(lookup, <<>>)]
            ELSE IF isLastAttempt(lookup.attempt, API_MAX_RETRIES)
                    \/ ~retryableErrors("github", e)
            THEN [gh EXCEPT !.lookups[k] = lookupRejected(lookup, e),
                            !.failed = @ \cup {e}]
            ELSE [gh EXCEPT !.lookups[k].attempt = @ + 1]
    /\ UNCHANGED <<orchVars, retry, git, summarizer>>

\* a request settles with a response or at its deadline
ghRequestSettles ==
    \E k \in DOMAIN gh.lookups, status \in {"200", "404", gh.fault} :
        \E data \in IF status = "200" THEN Responses200 ELSE {<<>>} :
            ghResponse(k, status, data)

\* githubAnalyzer.ts:99-110: Promise.allSettled has resolved
ghBatchSettled ==
    /\ gh.pc = "allSettled"
    /\ \A k \in DOMAIN gh.lookups : gh.lookups[k].status # "pending"
    /\ LET prsMap == collect(gh.prsMap, gh.lookups, gh.i + 1,
                             gh.i + Cardinality(DOMAIN gh.lookups), gh.maxPRs)
       IN gh' = nextBatch([gh EXCEPT !.prsMap = prsMap,
                                     !.i = @ + PR_BATCH_SIZE])
    /\ UNCHANGED <<orchVars, retry, git, summarizer>>

InitGithub ==
    /\ analysisCache = [k \in Keys |-> NoEntry]
    /\ lastAnalysis = NoAnalysis
    /\ analysisInProgress = FALSE
    /\ analysisCancelled = FALSE
    /\ claudeKey = TRUE
    /\ now = 0
    /\ pending = EmptyBag
    /\ ui = Ui("none", NoReport)
    /\ issued = 0
    /\ retry = RetryIdle
    /\ git = RetryIdle
    /\ summarizer = RetryIdle
    /\ gh \in GithubCalls

NextGithub ==
    \/ ghRemoteUrlResolved
    \/ ghTokenResolved
    \/ ghRequestSettles
    \/ ghBatchSettled

SpecGithub == InitGithub /\ [][NextGithub]_vars

(***************************************************************************)
(* getPullRequestsForCommits, githubAnalyzer.ts:84-116, with the order in  *)
(* which the lookups of a batch complete kept in the state.  A lookup is   *)
(* one call of getPRsForCommit, which resolves with the value given for    *)
(* its commit (it never rejects, githubAnalyzer.ts:153-155).               *)
(***************************************************************************)
\* the longest commit list explored with every answer for every commit
MaxBatchCommits == 3

\* what a call of getPRsForCommit resolves with
LookupAnswers ==
    {lookupResolved(NewLookup, data) :
        data \in Responses200 \cup {<<RawPR(3), RawPR(4)>>}}
    \cup {lookupRejected(NewLookup, "RequestTimeout")}

\* a call of getPullRequestsForCommits: answers[k] is what the lookup of
\* commit k resolves with; waiting the lookups of the batch not yet
\* settled; order the lookups of the batch (numbered within the batch) in
\* the order in which they settled
PRsCall(answers, maxPRs) ==
    [pc |-> "for", answers |-> answers, maxPRs |-> maxPRs, i |-> 0,
     waiting |-> {}, order |-> <<>>, prsMap |-> <<>>, result |-> NoResult]

\* commit lists longer than one batch
TwoBatchAnswers ==
    LET none == lookupRejected(NewLookup, "RequestTimeout")
        one == lookupResolved(NewLookup, <<RawPR(2)>>)
        four == lookupResolved(NewLookup, <<RawPR(4), RawPR(2), RawPR(1), RawPR(3)>>)
    IN {<<one, none, none, none, none, four>>,
        <<none, none, four, none, one, one>>}

PRsCalls ==
    {PRsCall(answers, maxPRs) :
        answers \in UNION {[1..n -> LookupAnswers] : n \in 0..MaxBatchCommits},
        maxPRs \in 0..MaxPRsBound}
    \cup {PRsCall(answers, MaxPRsBound) : answers \in TwoBatchAnswers}

\* the last lookup of the batch that starts after commit i
batchEnd(g) == IF g.i + PR_BATCH_SIZE <= Len(g.answers)
               THEN g.i + PR_BATCH_SIZE ELSE Len(g.answers)

\* githubAnalyzer.ts:94-97 and 112-114: the head of the loop: the lookups of
\* the next batch are started, or the loop ends and the sorted values of
\* prsMap are returned
prsLoopHead ==
    /\ gh.pc = "for"
    /\ gh' = IF gh.i < Len(gh.answers) /\ Len(gh.prsMap) < gh.maxPRs
             THEN [gh EXCEPT !.pc = "allSettled",
                             !.waiting = 1..(batchEnd(gh) - gh.i),
                             !.order = <<>>]
             ELSE [gh EXCEPT !.pc = "returned",
                             !.result = sortByCreatedAt(gh.prsMap)]
    /\ UNCHANGED <<orchVars, retry, git, summarizer>>

\* githubAnalyzer.ts:95-97: one of the lookups of the batch settles
prsLookupSettles ==
    /\ gh.pc = "allSettled"
    /\ \E k \in gh.waiting :
          gh' = [gh EXCEPT !.waiting = @ \ {k}, !.order = Append(@, k)]
    /\ UNCHANGED <<orchVars, retry, git, summarizer>>

\* mutant: the results are listed in the order in which the lookups settled
allSettled_completionOrder(promises, order) ==
    [j \in 1..Len(order) |-> promises[order[j]]]

\* Promise.allSettled, githubAnalyzer.ts:99: the results in the order of the
\* promises passed in, whatever the order in which they settled
allSettled(promises, order) == promises

\* githubAnalyzer.ts:99-110: Promise.allSettled has resolved and the results
\* are collected
prsAllSettled ==
    /\ gh.pc = "allSettled"
    /\ gh.waiting = {}
    /\ LET promises == [j \in 1..(batchEnd(gh) - gh.i) |-> gh.answers[gh.i + j]]
           results == allSettled(promises, gh.order)
       IN gh' = [gh EXCEPT !.pc = "for",
                           !.prsMap = collect(@, results, 1, Len(results),
                                              gh.maxPRs),
                           !.i = @ + PR_BATCH_SIZE]
    /\ UNCHANGED <<orchVars, retry, git, summarizer>>

InitResolverOrder ==
    /\ analysisCache = [k \in Keys |-> NoEntry]
    /\ lastAnalysis = NoAnalysis
    /\ analysisInProgress = FALSE
    /\ analysisCancelled = FALSE
    /\ claudeKey = TRUE
    /\ now = 0
    /\ pending = EmptyBag
    /\ ui = Ui("none", NoReport)
    /\ issued = 0
    /\ retry = RetryIdle
    /\ git = RetryIdle
    /\ summarizer = RetryIdle
    /\ gh \in PRsCalls

NextResolverOrder ==
    \/ prsLoopHead
    \/ prsLookupSettles
    \/ prsAllSettled

SpecResolverOrder == InitResolverOrder /\ [][NextResolverOrder]_vars

(***************************************************************************)
(* The history miner, src/unnamed/part_001 (GitAnalyzer).  The text git    *)
(* prints is modelled as the list of its header lines, each already split  *)
(* at '|', with the numstat total of the commit beside it.                 *)
(***************************************************************************)
MaxGitCommits == 8

\* the author dates (%aI) of the history, oldest first; a later date is a
\* greater string
AuthorDates == <<"2024-03-01", "2024-03-02", "2024-03-03", "2024-03-04", "2024-03-05", "2024-03-06", "2024-03-07", "2024-03-08", "2024-03-09", "2024-03-10">>

dayOf(date) == CHOOSE d \in DOMAIN AuthorDates : AuthorDates[d] = date

Hashes == <<"a1f0", "b2e1", "c3d2", "d4c3", "e5b4", "f6a5", "0796", "1887", "2978", "3a69">>

\* the authors of the history as %an and %ae print them: two identities share
\* the name bob, one of them without an e-mail address
Authors == {[an |-> "alice", ae |-> "alice@x.io"], [an |-> "bob", ae |-> "bob@x.io"], [an |-> "bob", ae |-> ""]}

Histories == UNION {[1..n -> Authors] : n \in 0..MaxGitCommits}

\* the header lines git log prints for a history, newest commit first
logLines(history) ==
    [k \in DOMAIN history |->
        [hash |-> Hashes[Len(history) - k + 1],
         shortHash |-> Hashes[Len(history) - k + 1],
         author |-> history[k].an,
         authorEmail |-> history[k].ae,
         date |-> AuthorDates[Len(history) - k + 1],
         message |-> "edit",
         stat |-> 2]]

\* `s || d` on strings
orDefault(s, d) == IF s = "" THEN d ELSE s

hasHashes(line) == line.hash # "" /\ line.shortHash # ""

toCommitInfo(line, linesChanged) ==
    [hash |-> line.hash,
     shortHash |-> line.shortHash,
     author |-> orDefault(line.author, "Unknown"),
     authorEmail |-> orDefault(line.authorEmail, ""),
     date |-> orDefault(line.date, ""),
     message |-> orDefault(line.message, ""),
     linesChanged |-> linesChanged]

\* the parsing half of getCommits: the numstat format carries the summed
\* additions and deletions, the line-range format counts no lines
parseCommits(output) ==
    LET kept == SelectSeq(output.lines, hasHashes)
    IN [k \in DOMAIN kept |->
           toCommitInfo(kept[k], IF output.numstat THEN kept[k].stat ELSE 0)]

ownerKey_byName(commit) == commit.author

ownerKey(commit) ==
    IF commit.authorEmail # "" THEN commit.authorEmail ELSE commit.author

\* the Map of calculateOwnership after the loop, in insertion order
RECURSIVE ownerMap(_)
ownerMap(commits) ==
    IF commits = <<>> THEN <<>>
    ELSE LET map == ownerMap(SubSeq(commits, 1, Len(commits) - 1))
             commit == commits[Len(commits)]
             key == ownerKey(commit)
             at == {k \in DOMAIN map : map[k].key = key}
         IN IF at # {}
            THEN [map EXCEPT ![CHOOSE k \in at : TRUE] =
                     [@ EXCEPT !.commits = @ + 1,
                               !.linesChanged = @ + commit.linesChanged,
                               !.lastContribution =
                                   IF dayOf(commit.date) > dayOf(@)
                                   THEN commit.date ELSE @]]
            ELSE Append(map, [key |-> key,
                              name |-> commit.author,
                              email |-> commit.authorEmail,
                              commits |-> 1,
                              linesChanged |-> commit.linesChanged,
                              lastContribution |-> commit.date])

\* Math.round(num / den) for num >= 0 and den > 0: halves go up
MathRound(num, den) == (2 * num + den) \div (2 * den)

percentage_truncated(commits, totalCommits) == (100 * commits) \div totalCommits

percentage(commits, totalCommits) == MathRound(100 * commits, totalCommits)

\* one step of the stable sort by commits, descending
insertByCommits(sorted, owner) ==
    LET ahead == {k \in DOMAIN sorted : sorted[k].commits >= owner.commits}
        n == Cardinality(ahead)
    IN SubSeq(sorted, 1, n) \o <<owner>> \o SubSeq(sorted, n + 1, Len(sorted))

RECURSIVE sortByCommits(_)
sortByCommits(owners) ==
    IF owners = <<>> THEN <<>>
    ELSE insertByCommits(sortByCommits(SubSeq(owners, 1, Len(owners) - 1)),
                         owners[Len(owners)])

calculateOwnership(commits) ==
    LET map == ownerMap(commits)
        totalCommits == Len(commits)
    IN sortByCommits([k \in DOMAIN map |->
           [name |-> map[k].name,
            email |-> map[k].email,
            commits |-> map[k].commits,
            linesChanged |-> map[k].linesChanged,
            lastContribution |-> map[k].lastContribution,
            percentage |-> percentage(map[k].commits, totalCommits)]])

\* changesPerMonth = commits.length / daysDiff * 30 compared with 10, 5, 1
\* and 0.25, in whole days
calculateChangeFrequency(commits) ==
    IF Len(commits) < 2 THEN "Rarely changed"
    ELSE LET diff == dayOf(commits[1].date) - dayOf(commits[Len(commits)].date)
             daysDiff == IF diff > 1 THEN diff ELSE 1
             n == Len(commits)
         IN IF 30 * n > 10 * daysDiff
               THEN "Very frequently changed (>10 times/month)"
            ELSE IF 30 * n > 5 * daysDiff
               THEN "Frequently changed (5-10 times/month)"
            ELSE IF 30 * n > daysDiff
               THEN "Occasionally changed (1-5 times/month)"
            ELSE IF 120 * n > daysDiff
               THEN "Rarely changed (few times/year)"
            ELSE "Very stable (rarely changes)"

getEmptyResult ==
    [commits |-> <<>>,
     owners |-> <<>>,
     lastModified |-> "Unknown",
     createdAt |-> "Unknown",
     totalChanges |-> 0,
     changeFrequency |-> "Unknown"]

\* analyze from the return of getCommits on, part_001:30-44
gitResult(commits) ==
    [commits |-> commits,
     owners |-> calculateOwnership(commits),
     lastModified |-> IF Len(commits) > 0 THEN commits[1].date ELSE "Unknown",
     createdAt |-> IF Len(commits) > 0 THEN commits[Len(commits)].date
                   ELSE "Unknown",
     totalChanges |-> Len(commits),
     changeFrequency |-> calculateChangeFrequency(commits)]

\* a call of GitAnalyzer.analyze: whether the file lies in a workspace
\* folder, how each git command ends, and the history git would print
GitCall(workspaceFolder, revParse, lineLog, fallbackLog, history) ==
    [pc |-> "getWorkspaceFolder",
     workspaceFolder |-> workspaceFolder,
     revParse |-> revParse,
     lineLog |-> lineLog,
     fallbackLog |-> fallbackLog,
     history |-> history,
     result |-> NoResult]

GitCalls ==
    {GitCall(w, rp, "fail", "fail", h) :
        w \in BOOLEAN, rp \in {"ok", "fail"},
        h \in [1..1 -> Authors]}
    \cup {GitCall(TRUE, "ok", l, "ok", h) :
             l \in {"ok", "fail"}, h \in Histories}

\* part_001:12-15
gitWorkspaceResolved ==
    /\ git.pc = "getWorkspaceFolder"
    /\ git' = IF ~git.workspaceFolder
              THEN [git EXCEPT !.pc = "returned", !.result = getEmptyResult]
              ELSE [git EXCEPT !.pc = "revParse"]
    /\ UNCHANGED <<orchVars, retry, gh, summarizer>>

\* part_001:20-25
gitRevParseSettles ==
    /\ git.pc = "revParse"
    /\ git' = IF git.revParse = "fail"
              THEN [git EXCEPT !.pc = "returned", !.result = getEmptyResult]
              ELSE [git EXCEPT !.pc = "lineLog"]
    /\ UNCHANGED <<orchVars, retry, gh, summarizer>>

\* the line-range query settles, part_001:61-68, and on success the output is
\* parsed, part_001:77-142
gitLineLogSettles ==
    /\ git.pc = "lineLog"
    /\ git' = IF git.lineLog = "fail"
              THEN [git EXCEPT !.pc = "fallbackLog"]
              ELSE [git EXCEPT !.pc = "returned",
                      !.result = gitResult(parseCommits(
                          [numstat |-> FALSE, lines |-> logLines(git.history)]))]
    /\ UNCHANGED <<orchVars, retry, gh, summarizer>>

gitFallbackLogSettles_propagates ==
    /\ git.pc = "fallbackLog"
    /\ git' = IF git.fallbackLog = "fail"
              THEN [git EXCEPT !.pc = "threw"]
              ELSE [git EXCEPT !.pc = "returned",
                      !.result = gitResult(parseCommits(
                          [numstat |-> TRUE, lines |-> logLines(git.history)]))]
    /\ UNCHANGED <<orchVars, retry, gh, summarizer>>

\* the whole-file query settles, part_001:68-75; its failure is caught by
\* getCommits, part_001:143-146
gitFallbackLogSettles ==
    /\ git.pc = "fallbackLog"
    /\ git' = IF git.fallbackLog = "fail"
              THEN [git EXCEPT !.pc = "returned", !.result = gitResult(<<>>)]
              ELSE [git EXCEPT !.pc = "returned",
                      !.result = gitResult(parseCommits(
                          [numstat |-> TRUE, lines |-> logLines(git.history)]))]
    /\ UNCHANGED <<orchVars, retry, gh, summarizer>>

InitGit ==
    /\ analysisCache = [k \in Keys |-> NoEntry]
    /\ lastAnalysis = NoAnalysis
    /\ analysisInProgress = FALSE
    /\ analysisCancelled = FALSE
    /\ claudeKey = TRUE
    /\ now = 0
    /\ pending = EmptyBag
    /\ ui = Ui("none", NoReport)
    /\ issued = 0
    /\ retry = RetryIdle
    /\ gh = RetryIdle
    /\ git \in GitCalls
    /\ summarizer = RetryIdle

NextGit ==
    \/ gitWorkspaceResolved
    \/ gitRevParseSettles
    \/ gitLineLogSettles
    \/ gitFallbackLogSettles

SpecGit == InitGit /\ [][NextGit]_vars

(***************************************************************************)
(* The purpose summarizer, src/src/analyzer/codeAnalyzer.ts: the mapping   *)
(* of a parsed reasoning-service response (analyzeWithClaude, 231-244) and *)
(* the heuristic strategy (analyzeStatic, 322-342).  A JavaScript value is *)
(* a record tagged with its type; a string on which the code works         *)
(* character by character is the tuple of its characters.                  *)
(***************************************************************************)
MaxRisks == 3
MaxTests == 3

Undefined == [t |-> "undefined"]
JsNull == [t |-> "null"]
Str(s) == [t |-> "string", v |-> s]
Text(chars) == [t |-> "text", chars |-> chars]
Num(n) == [t |-> "number", n |-> n]
Arr(a) == [t |-> "array", a |-> a]
Obj(o) == [t |-> "object", o |-> o]

\* the truthiness of a value, as `x || d` tests it
jsTruthy(x) ==
    CASE x.t = "string" -> x.v # ""
      [] x.t = "text" -> x.chars # <<>>
      [] x.t = "number" -> x.n # 0
      [] x.t \in {"array", "object"} -> TRUE
      [] OTHER -> FALSE

\* x.f: reading a property of null or undefined throws a TypeError, a
\* property a value does not have is undefined
canRead(x) == x.t \notin {"null", "undefined"}

get(x, f) == IF x.t = "object" /\ f \in DOMAIN x.o THEN x.o[f] ELSE Undefined

\* Array.prototype.includes of a list of string literals
oneOf(x, valid) == x.t = "string" /\ x.v \in valid

\* Array.isArray(x) ? x : []
arrayOrEmpty(x) == IF x.t = "array" THEN x.a ELSE <<>>

validCategories == {"business-logic", "ui-ux", "data-access", "state-management", "routing", "authentication", "authorization", "validation", "data-transform", "search", "api-client", "real-time", "notification", "event-system", "ai-ml", "payment", "analytics", "file-handling", "animation", "theming", "accessibility", "localization", "infrastructure", "middleware", "observability", "scheduling", "migration", "security", "rate-limiting", "testing", "utility", "performance", "feature-flag", "legacy", "geolocation", "unknown"}

validateMainPurposeCategory_passThrough(category) == IF category.t = "string" THEN category.v ELSE "unknown"

validateMainPurposeCategory(category) ==
    IF oneOf(category, validCategories) THEN category.v ELSE "unknown"

CodeTypes == {"function", "class", "component", "module", "configuration", "test", "utility", "api", "unknown"}

validateCodeType(type) == IF oneOf(type, CodeTypes) THEN type.v ELSE "unknown"

ComplexityLevels == {"low", "medium", "high", "very-high"}

validateComplexity(complexity) ==
    IF oneOf(complexity, ComplexityLevels) THEN complexity.v ELSE "medium"

RiskLevels == {"low", "medium", "high", "critical"}

\* the order object of assessRisks, codeAnalyzer.ts:638
riskOrder(level) ==
    CASE level = "critical" -> 0
      [] level = "high" -> 1
      [] level = "medium" -> 2
      [] level = "low" -> 3

\* the element validateRisks makes of one risk of the response
toRisk(risk) ==
    [level |-> IF oneOf(get(risk, "level"), RiskLevels)
               THEN get(risk, "level").v ELSE "medium",
     description |-> IF jsTruthy(get(risk, "description"))
                     THEN get(risk, "description")
                     ELSE Str("Risk identified"),
     recommendation |-> IF jsTruthy(get(risk, "recommendation"))
                        THEN get(risk, "recommendation")
                        ELSE Str("Review carefully before changes")]

\* codeAnalyzer.ts:274-288; the list is returned in the order of the response
validateRisks(risks) ==
    IF risks.t # "array"
    THEN <<[level |-> "low",
            description |-> Str("No specific risks identified"),
            recommendation |-> Str("Standard testing practices should be sufficient")]>>
    ELSE [k \in DOMAIN risks.a |-> toRisk(risks.a[k])]

\* whether risks.map throws: an element is null or undefined
validateRisksThrows(risks) ==
    risks.t = "array" /\ \E k \in DOMAIN risks.a : ~canRead(risks.a[k])

TestTypes == {"unit", "integration", "e2e", "manual"}
TestPriorities == {"high", "medium", "low"}

\* priorityOrder, codeAnalyzer.ts:297
priorityOrder(priority) ==
    CASE priority = "high" -> 0
      [] priority = "medium" -> 1
      [] priority = "low" -> 2

Text_Test_case == Text(<<"T", "e", "s", "t", " ", "c", "a", "s", "e">>)

\* codeAnalyzer.ts:299-304
toTest(test) ==
    [type |-> IF oneOf(get(test, "type"), TestTypes)
              THEN get(test, "type").v ELSE "unit",
     description |-> IF jsTruthy(get(test, "description"))
                     THEN get(test, "description") ELSE Text_Test_case,
     priority |-> IF oneOf(get(test, "priority"), TestPriorities)
                  THEN get(test, "priority").v ELSE "medium",
     reason |-> IF jsTruthy(get(test, "reason"))
                THEN get(test, "reason") ELSE Undefined]

WhiteSpace == {" ", "\t", "\n"}

\* String.prototype.trim
trim(str) ==
    LET inside == {k \in DOMAIN str : str[k] \notin WhiteSpace}
    IN IF inside = {} THEN <<>>
       ELSE SubSeq(str, CHOOSE k \in inside : \A j \in inside : k <= j,
                        CHOOSE k \in inside : \A j \in inside : j <= k)

testKey_exactDescription(test) == <<test.type, test.description.chars>>

\* `${test.type}:${test.description.toLowerCase().trim()}`
testKey(test) == <<test.type, trim(toLowerCase(test.description.chars))>>

\* the filter with the seen set, codeAnalyzer.ts:307-315
RECURSIVE uniqueTests(_)
uniqueTests(tests) ==
    IF tests = <<>> THEN <<>>
    ELSE LET before == uniqueTests(SubSeq(tests, 1, Len(tests) - 1))
             test == tests[Len(tests)]
         IN IF \E k \in DOMAIN before : testKey(before[k]) = testKey(test)
            THEN before
            ELSE Append(before, test)

\* one step of the stable sort by priorityOrder
insertByPriority(sorted, test) ==
    LET ahead == {k \in DOMAIN sorted :
                     priorityOrder(sorted[k].priority) <= priorityOrder(test.priority)}
        n == Cardinality(ahead)
    IN SubSeq(sorted, 1, n) \o <<test>> \o SubSeq(sorted, n + 1, Len(sorted))

RECURSIVE sortByPriority(_)
sortByPriority(tests) ==
    IF tests = <<>> THEN <<>>
    ELSE insertByPriority(sortByPriority(SubSeq(tests, 1, Len(tests) - 1)),
                          tests[Len(tests)])

\* codeAnalyzer.ts:290-319
validateSuggestedTests(tests) ==
    IF tests.t # "array" THEN <<>>
    ELSE sortByPriority(uniqueTests([k \in DOMAIN tests.a |-> toTest(tests.a[k])]))

\* whether validateSuggestedTests throws: an element is null or undefined,
\* or a description is truthy without being a string (no toLowerCase)
validateSuggestedTestsThrows(tests) ==
    /\ tests.t = "array"
    /\ \E k \in DOMAIN tests.a :
          \/ ~canRead(tests.a[k])
          \/ /\ jsTruthy(get(tests.a[k], "description"))
             /\ get(tests.a[k], "description").t \notin {"string", "text"}

\* path.basename: the part of a path after its last '/'
basename(filePath) ==
    LET slashes == {k \in DOMAIN filePath : filePath[k] = "/"}
    IN IF slashes = {} THEN filePath
       ELSE SubSeq(filePath, (CHOOSE k \in slashes : \A j \in slashes : j <= k) + 1,
                   Len(filePath))

\* some pattern of a list is a substring: a chain of includes joined by ||
includesAny(str, pats) == \E pat \in pats : includes(str, pat)

TestingNames == {<<"t", "e", "s", "t">>, <<"s", "p", "e", "c">>, <<"m", "o", "c", "k">>, <<"f", "i", "x", "t", "u", "r", "e">>}
AuthenticationWords == {<<"a", "u", "t", "h">>, <<"l", "o", "g", "i", "n">>, <<"p", "a", "s", "s", "w", "o", "r", "d">>, <<"t", "o", "k", "e", "n">>, <<"s", "e", "s", "s", "i", "o", "n">>, <<"o", "a", "u", "t", "h">>}
AuthenticationNames == {<<"a", "u", "t", "h">>, <<"l", "o", "g", "i", "n">>}
SecurityWords == {<<"e", "n", "c", "r", "y", "p", "t">>, <<"c", "s", "r", "f">>, <<"x", "s", "s">>, <<"s", "a", "n", "i", "t", "i", "z", "e">>, <<"s", "e", "c", "u", "r", "i", "t", "y">>}
InfrastructureNames == {<<"c", "o", "n", "f", "i", "g">>, <<"w", "e", "b", "p", "a", "c", "k">>, <<"b", "a", "b", "e", "l">>, <<"e", "s", "l", "i", "n", "t">>, <<"d", "o", "c", "k", "e", "r">>, <<"c", "i">>, <<"e", "n", "v">>}
UiWords == {<<"r", "e", "n", "d", "e", "r">>, <<"s", "t", "y", "l", "e">>, <<"a", "n", "i", "m", "a", "t", "i", "o", "n">>, <<"c", "s", "s">>, <<"t", "h", "e", "m", "e">>}
UiNames == {<<"c", "o", "m", "p", "o", "n", "e", "n", "t">>, <<"v", "i", "e", "w">>, <<"p", "a", "g", "e">>, <<"s", "t", "y", "l", "e">>, <<"u", "i">>}
DataAccessWords == {<<"f", "e", "t", "c", "h">>, <<"a", "x", "i", "o", "s">>, <<"q", "u", "e", "r", "y">>, <<"d", "a", "t", "a", "b", "a", "s", "e">>, <<"r", "e", "p", "o", "s", "i", "t", "o", "r", "y">>, <<"a", "p", "i">>, <<"g", "r", "a", "p", "h", "q", "l">>, <<"p", "r", "i", "s", "m", "a">>, <<"m", "o", "n", "g", "o", "o", "s", "e">>}
DataAccessNames == {<<"a", "p", "i">>, <<"s", "e", "r", "v", "i", "c", "e">>, <<"r", "e", "p", "o", "s", "i", "t", "o", "r", "y">>}
ApiClientWords == {<<"w", "e", "b", "h", "o", "o", "k">>, <<"s", "t", "r", "i", "p", "e">>, <<"a", "w", "s">>, <<"f", "i", "r", "e", "b", "a", "s", "e">>, <<"t", "w", "i", "l", "i", "o">>, <<"s", "l", "a", "c", "k">>}
ApiClientNames == {<<"i", "n", "t", "e", "g", "r", "a", "t", "i", "o", "n">>, <<"p", "l", "u", "g", "i", "n">>}
PerformanceWords == {<<"c", "a", "c", "h", "e">>, <<"m", "e", "m", "o">>, <<"l", "a", "z", "y">>, <<"d", "e", "b", "o", "u", "n", "c", "e">>, <<"t", "h", "r", "o", "t", "t", "l", "e">>, <<"o", "p", "t", "i", "m", "i", "z", "e">>}
LegacyWords == {<<"d", "e", "p", "r", "e", "c", "a", "t", "e", "d">>, <<"t", "o", "d", "o", ":">>, <<"f", "i", "x", "m", "e">>, <<"h", "a", "c", "k">>, <<"w", "o", "r", "k", "a", "r", "o", "u", "n", "d">>, <<"l", "e", "g", "a", "c", "y">>}
Pat_var == <<"v", "a", "r", " ">>
UtilityNames == {<<"u", "t", "i", "l">>, <<"h", "e", "l", "p", "e", "r">>, <<"c", "o", "m", "m", "o", "n">>, <<"s", "h", "a", "r", "e", "d">>}

\* the conditions of the rules of inferMainPurposeCategory, in the order of
\* the source; fileName and lowerCode are the lower-cased base name and code
isTesting(code, fileName, codeType) ==
    codeType = "test" \/ includesAny(fileName, TestingNames)

isAuthentication(code, fileName, codeType) ==
    includesAny(toLowerCase(code), AuthenticationWords) \/ includesAny(fileName, AuthenticationNames)

isSecurity(code, fileName, codeType) == includesAny(toLowerCase(code), SecurityWords)

isInfrastructure(code, fileName, codeType) ==
    codeType = "configuration" \/ includesAny(fileName, InfrastructureNames)

isUiUx(code, fileName, codeType) ==
    \/ codeType = "component"
    \/ includesAny(toLowerCase(code), UiWords)
    \/ includesAny(fileName, UiNames)

isDataAccess(code, fileName, codeType) ==
    includesAny(toLowerCase(code), DataAccessWords) \/ includesAny(fileName, DataAccessNames)

isApiClient(code, fileName, codeType) ==
    includesAny(toLowerCase(code), ApiClientWords) \/ includesAny(fileName, ApiClientNames)

isPerformance(code, fileName, codeType) == includesAny(toLowerCase(code), PerformanceWords)

isLegacy(code, fileName, codeType) ==
    includesAny(toLowerCase(code), LegacyWords) \/ includes(code, Pat_var)

isUtility(code, fileName, codeType) ==
    codeType = "utility" \/ includesAny(fileName, UtilityNames)

isBusinessLogic(code, fileName, codeType) == codeType \in {"class", "function", "module"}

\* mutant: the security rule is tried before the authentication rule
inferMainPurposeCategory_securityFirst(code, filePath, codeType) ==
    LET fileName == toLowerCase(basename(filePath))
    IN IF isTesting(code, fileName, codeType) THEN "testing"
       ELSE IF isSecurity(code, fileName, codeType) THEN "security"
       ELSE IF isAuthentication(code, fileName, codeType) THEN "authentication"
       ELSE IF isInfrastructure(code, fileName, codeType) THEN "infrastructure"
       ELSE IF isUiUx(code, fileName, codeType) THEN "ui-ux"
       ELSE IF isDataAccess(code, fileName, codeType) THEN "data-access"
       ELSE IF isApiClient(code, fileName, codeType) THEN "api-client"
       ELSE IF isPerformance(code, fileName, codeType) THEN "performance"
       ELSE IF isLegacy(code, fileName, codeType) THEN "legacy"
       ELSE IF isUtility(code, fileName, codeType) THEN "utility"
       ELSE IF isBusinessLogic(code, fileName, codeType) THEN "business-logic"
       ELSE "unknown"

\* codeAnalyzer.ts:344-422
inferMainPurposeCategory(code, filePath, codeType) ==
    LET fileName == toLowerCase(basename(filePath))
    IN IF isTesting(code, fileName, codeType) THEN "testing"
       ELSE IF isAuthentication(code, fileName, codeType) THEN "authentication"
       ELSE IF isSecurity(code, fileName, codeType) THEN "security"
       ELSE IF isInfrastructure(code, fileName, codeType) THEN "infrastructure"
       ELSE IF isUiUx(code, fileName, codeType) THEN "ui-ux"
       ELSE IF isDataAccess(code, fileName, codeType) THEN "data-access"
       ELSE IF isApiClient(code, fileName, codeType) THEN "api-client"
       ELSE IF isPerformance(code, fileName, codeType) THEN "performance"
       ELSE IF isLegacy(code, fileName, codeType) THEN "legacy"
       ELSE IF isUtility(code, fileName, codeType) THEN "utility"
       ELSE IF isBusinessLogic(code, fileName, codeType) THEN "business-logic"
       ELSE "unknown"

GlobalStatePats == {<<"w", "i", "n", "d", "o", "w", ".">>, <<"g", "l", "o", "b", "a", "l", ".">>, <<"g", "l", "o", "b", "a", "l", "T", "h", "i", "s", ".">>}
UnsafePats == {<<"e", "v", "a", "l", "(">>, <<"i", "n", "n", "e", "r", "H", "T", "M", "L">>}

\* one step of the stable sort by the order of the levels
insertByLevel(sorted, risk) ==
    LET ahead == {k \in DOMAIN sorted :
                     riskOrder(sorted[k].level) <= riskOrder(risk.level)}
        n == Cardinality(ahead)
    IN SubSeq(sorted, 1, n) \o <<risk>> \o SubSeq(sorted, n + 1, Len(sorted))

RECURSIVE sortByLevel(_)
sortByLevel(risks) ==
    IF risks = <<>> THEN <<>>
    ELSE insertByLevel(sortByLevel(SubSeq(risks, 1, Len(risks) - 1)),
                       risks[Len(risks)])

\* codeAnalyzer.ts:594-641; the description of the second risk also quotes
\* the number of dependencies
assessRisks(code, complexity, dependencies) ==
    LET r1 == IF complexity \in {"high", "very-high"}
              THEN <<[level |-> IF complexity = "very-high" THEN "high" ELSE "medium",
                      description |-> Str("High code complexity makes changes error-prone"),
                      recommendation |-> Str("Consider refactoring into smaller, more focused functions")]>>
              ELSE <<>>
        r2 == IF Len(dependencies) > 10
              THEN <<[level |-> "medium",
                      description |-> Str("High number of dependencies"),
                      recommendation |-> Str("Changes may have cascading effects. Review import usage carefully.")]>>
              ELSE <<>>
        r3 == IF includesAny(code, GlobalStatePats)
              THEN <<[level |-> "high",
                      description |-> Str("Modifies global state"),
                      recommendation |-> Str("Global state changes can cause hard-to-debug issues.")]>>
              ELSE <<>>
        r4 == IF includesAny(code, UnsafePats)
              THEN <<[level |-> "critical",
                      description |-> Str("Potential security vulnerability (eval/innerHTML)"),
                      recommendation |-> Str("These patterns can lead to XSS attacks. Use safer alternatives.")]>>
              ELSE <<>>
        risks == r1 \o r2 \o r3 \o r4
    IN sortByLevel(IF risks = <<>>
                   THEN <<[level |-> "low",
                           description |-> Str("No significant risks detected"),
                           recommendation |-> Str("Standard testing practices should be sufficient for changes.")]>>
                   ELSE risks)

\* the code texts and file paths given to the heuristic strategy
StaticCodes == {<<"l", "o", "g", "i", "n", "(", "t", "o", "k", "e", "n", ")">>, <<"e", "n", "c", "r", "y", "p", "t", "(", "p", "a", "s", "s", "w", "o", "r", "d", ")">>, <<"s", "a", "n", "i", "t", "i", "z", "e", "(", "x", "s", "s", ")">>, <<"r", "e", "n", "d", "e", "r", "(", "s", "t", "y", "l", "e", ")">>, <<"f", "e", "t", "c", "h", "(", "q", "u", "e", "r", "y", ")">>, <<"s", "t", "r", "i", "p", "e", " ", "w", "e", "b", "h", "o", "o", "k">>, <<"m", "e", "m", "o", " ", "c", "a", "c", "h", "e">>, <<"v", "a", "r", " ", "x", ";", " ", "/", "/", " ", "F", "I", "X", "M", "E">>, <<"x", " ", "=", " ", "1">>, <<"w", "i", "n", "d", "o", "w", ".", "x", " ", "=", " ", "e", "v", "a", "l", "(", "y", ")">>}
StaticPaths == {<<"s", "r", "c", "/", "a", "u", "t", "h", ".", "t", "s">>, <<"s", "r", "c", "/", "L", "o", "g", "i", "n", ".", "t", "e", "s", "t", ".", "t", "s">>, <<"w", "e", "b", "p", "a", "c", "k", ".", "c", "o", "n", "f", "i", "g", ".", "j", "s">>, <<"s", "r", "c", "/", "u", "t", "i", "l", "s", "/", "h", "e", "l", "p", "e", "r", ".", "t", "s">>, <<"s", "r", "c", "/", "m", "a", "i", "n", ".", "t", "s">>, <<"t", "e", "s", "t", "/", "m", "a", "i", "n", ".", "t", "s">>}
Code_login_token == <<"l", "o", "g", "i", "n", "(", "t", "o", "k", "e", "n", ")">>
Code_encrypt_password == <<"e", "n", "c", "r", "y", "p", "t", "(", "p", "a", "s", "s", "w", "o", "r", "d", ")">>
Code_window_eval == <<"w", "i", "n", "d", "o", "w", ".", "x", " ", "=", " ", "e", "v", "a", "l", "(", "y", ")">>
Path_auth_ts == <<"s", "r", "c", "/", "a", "u", "t", "h", ".", "t", "s">>

\* the lists extractDependencies can return: no import, or eleven of them
Dependencies == {<<>>, [k \in 1..11 |-> k]}

\* a call of analyzeStatic with what detectCodeType, calculateComplexity and
\* extractDependencies returned for the code
StaticCalls ==
    {[pc |-> "analyzeStatic", code |-> c, filePath |-> f, codeType |-> ct,
      complexity |-> cx, dependencies |-> d, result |-> NoResult] :
        c \in StaticCodes, f \in StaticPaths, ct \in CodeTypes,
        cx \in ComplexityLevels, d \in Dependencies}

\* the risks a response can list: the four levels, an unknown level, no
\* level, and a null in place of a risk
RiskElems ==
    {Obj([level |-> l, description |-> Str("breaks callers")]) :
        l \in {Str("low"), Str("medium"), Str("high"), Str("critical"), Str("severe"), Undefined}}
    \cup {JsNull}

RiskLists == UNION {[1..n -> RiskElems] : n \in 0..MaxRisks}

Text_Run == Text(<<"R", "u", "n">>)
Text_run_padded == Text(<<" ", "r", "u", "n", " ">>)

\* the suggested tests a response can list: well-formed ones, ones that lack
\* a field, a null, and one whose description is a number
TestElems ==
    {Obj([type |-> Str(ty), description |-> d, priority |-> Str(p)]) :
        ty \in {"unit", "e2e"}, d \in {Text_Run, Text_run_padded}, p \in {"high", "low"}}
    \cup {Obj([type |-> Str("smoke"), description |-> Text_run_padded, priority |-> Str("low")]),
          Obj([type |-> Str("unit"), priority |-> Str("urgent")]),
          Obj([type |-> Str("unit"), description |-> Num(5), priority |-> Str("high")]),
          JsNull}

TestLists == UNION {[1..n -> TestElems] : n \in 0..MaxTests}

BaseResponse ==
    [purpose |-> Str("Signs users in"),
     mainPurposeCategory |-> Str("authentication"),
     codeType |-> Str("function"),
     complexity |-> Str("low"),
     dependencies |-> Arr(<<>>),
     exports |-> Arr(<<>>),
     potentialPurposes |-> Arr(<<>>),
     whyItExists |-> Undefined,
     risks |-> Arr(<<>>),
     suggestedTests |-> Arr(<<>>)]

\* the objects JSON.parse can yield for a response: enumeration fields that
\* are valid, unknown, absent or of another type; list fields that are
\* arrays or not; lists of risks; lists of suggested tests
Responses ==
    {[BaseResponse EXCEPT !.mainPurposeCategory = cat, !.complexity = cx, !.codeType = ct] :
        cat \in {Str("authentication"), Str("geolocation"), Str("banana"), Str("Utility"), Undefined, JsNull, Num(3)},
        cx \in {Str("low"), Str("very-high"), Str("extreme"), Undefined, Num(2)},
        ct \in {Str("class"), Str("widget")}}
    \cup {[BaseResponse EXCEPT !.mainPurposeCategory = cat, !.complexity = cx, !.dependencies = d, !.exports = e, !.potentialPurposes = p, !.risks = r, !.suggestedTests = st] :
        cat \in {Str("authentication"), Str("banana")},
        cx \in {Str("low"), Str("extreme")},
        d \in {Arr(<<Str("fs")>>), Str("fs"), Undefined},
        e \in {Arr(<<Str("login")>>), Obj([length |-> Num(1)]), JsNull},
        p \in {Arr(<<Str("Signs users in")>>), Num(1), Undefined},
        r \in {Arr(<<>>), Str("none"), Undefined},
        st \in {Arr(<<>>), Obj([length |-> Num(0)]), JsNull}}
    \cup {[BaseResponse EXCEPT !.risks = Arr(r)] : r \in RiskLists}
    \cup {[BaseResponse EXCEPT !.suggestedTests = Arr(st)] : st \in TestLists}

ResponseCalls ==
    {[pc |-> "parsed", analysis |-> a, result |-> NoResult] : a \in Responses}

\* `x || d`
orElse(x, d) == IF jsTruthy(x) THEN x ELSE d

\* the mapping of the parsed response, codeAnalyzer.ts:231-244; a TypeError in
\* validateRisks or validateSuggestedTests ends analyzeWithClaude
mapResponse ==
    /\ summarizer.pc = "parsed"
    /\ LET analysis == summarizer.analysis
       IN summarizer' =
             IF validateRisksThrows(analysis.risks) \/ validateSuggestedTestsThrows(analysis.suggestedTests)
             THEN [summarizer EXCEPT !.pc = "threw"]
             ELSE [summarizer EXCEPT !.pc = "returned", !.result =
                     [purpose |-> orElse(analysis.purpose, Str("Unable to determine purpose")),
                      mainPurposeCategory |-> validateMainPurposeCategory(analysis.mainPurposeCategory),
                      codeType |-> validateCodeType(analysis.codeType),
                      complexity |-> validateComplexity(analysis.complexity),
                      dependencies |-> arrayOrEmpty(analysis.dependencies),
                      exports |-> arrayOrEmpty(analysis.exports),
                      potentialPurposes |-> arrayOrEmpty(analysis.potentialPurposes),
                      whyItExists |-> orElse(analysis.whyItExists, Undefined),
                      risks |-> validateRisks(analysis.risks),
                      suggestedTests |-> validateSuggestedTests(analysis.suggestedTests)]]
    /\ UNCHANGED <<orchVars, retry, gh, git>>

\* codeAnalyzer.ts:322-342; the purpose texts and the export list of the
\* result are left out
analyzeStatic ==
    /\ summarizer.pc = "analyzeStatic"
    /\ summarizer' = [summarizer EXCEPT !.pc = "returned", !.result =
          [mainPurposeCategory |-> inferMainPurposeCategory(summarizer.code, summarizer.filePath, summarizer.codeType),
           codeType |-> summarizer.codeType,
           complexity |-> summarizer.complexity,
           dependencies |-> summarizer.dependencies,
           risks |-> assessRisks(summarizer.code, summarizer.complexity, summarizer.dependencies)]]
    /\ UNCHANGED <<orchVars, retry, gh, git>>

InitSummarizer ==
    /\ analysisCache = [k \in Keys |-> NoEntry]
    /\ lastAnalysis = NoAnalysis
    /\ analysisInProgress = FALSE
    /\ analysisCancelled = FALSE
    /\ claudeKey = TRUE
    /\ now = 0
    /\ pending = EmptyBag
    /\ ui = Ui("none", NoReport)
    /\ issued = 0
    /\ retry = RetryIdle
    /\ gh = RetryIdle
    /\ git = RetryIdle
    /\ summarizer \in ResponseCalls \cup StaticCalls

NextSummarizer ==
    \/ mapResponse
    \/ analyzeStatic

SpecSummarizer == InitSummarizer /\ [][NextSummarizer]_vars

(***************************************************************************)
(* Properties of the orchestrator and its cache.                           *)
(***************************************************************************)
\* the invocations that are executing the stages of analyzeCode
InStages == [r \in {x \in Invs : x.pc \in StagePcs} |-> pending[r]]

\* a step in which a command calls analyzeCode without force-refresh
NonForcedCall == analyzeCommand \/ analyzeFileCommand

\* a step in which a stage of invocation r throws
StageThrows(r) ==
    gitSettles(r, Throw) \/ codeSettles(r, Throw) \/ githubSettles(r, Throw)

\* a step in which a stage of invocation r returns a value
StageReturns(r) ==
    \/ \E res \in GitResults : gitSettles(r, res)
    \/ \E res \in CodeResults : codeSettles(r, res)
    \/ \E res \in GithubResults : githubSettles(r, res)

\* the cache key of the request invocation r carries
KeyOf(r) == <<r.filePath, r.startLine, r.endLine>>

\* the cache key of the request recorded in lastAnalysis after the step
RequestKey == <<lastAnalysis'.filePath, lastAnalysis'.startLine, lastAnalysis'.endLine>>

\* the invocation that a request recorded in lastAnalysis suspends as
RequestInv == [NewInv EXCEPT !.filePath = lastAnalysis'.filePath,
                             !.startLine = lastAnalysis'.startLine,
                             !.endLine = lastAnalysis'.endLine,
                             !.code = lastAnalysis'.code]

\* C1: at most one invocation of analyzeCode executes its stages (history,
\* summarizer, resolver, merge) at any time, in every interleaving of
\* analyze, analyzeFile and refresh.
MutualExclusion == BagCardinality(InStages) <= 1

\* C2: a request that calls analyzeCode while analysisInProgress is true gets
\* the busy notice and nothing else happens: it makes no external call, and
\* the cache, lastAnalysis, analysisCancelled, analysisInProgress and every
\* other invocation are unchanged.
BusyRejectionChangesNothing ==
    [][/\ (analysisInProgress /\ NonForcedCall)
            => /\ ui' = Ui("busy", NoReport)
               /\ UNCHANGED <<pending, analysisCache, lastAnalysis,
                              analysisCancelled, analysisInProgress,
                              claudeKey, now>>
       /\ \A r \in Invs :
             (analysisInProgress /\ refreshOpened(r))
                => /\ ui' = Ui("busy", NoReport)
                   /\ pending' = Without(r)
                   /\ UNCHANGED <<analysisCache, lastAnalysis,
                                  analysisCancelled, analysisInProgress,
                                  claudeKey, now>>]_vars

\* C2 witness: a request was rejected as busy while an analysis is in flight.
BusyRejectionWitness ==
    /\ ui.kind = "busy"
    /\ analysisInProgress
    /\ \E r \in Invs : r.pc \in StagePcs

\* C3: (a) a completed analysis stores exactly the report it delivers; (b) a
\* non-forced request with the same key and identical code text, made before
\* the TTL has elapsed, makes no external call and is shown the stored report,
\* equal in every field, with fromCache = TRUE and a cacheAge >= 0.
CachingIdempotent ==
    [][/\ \A r \in Invs :
             ((\E res \in GithubResults : githubSettles(r, res))
              /\ ui'.kind = "report" /\ ~analysisCancelled)
                => /\ analysisCache'[KeyOf(r)].result = ui'.report
                   /\ ui'.report.code = r.code
                   /\ KeyOf(ui'.report) = KeyOf(r)
       /\ (~analysisInProgress /\ NonForcedCall
           /\ analysisCache[RequestKey] # NoEntry
           /\ analysisCache[RequestKey].result.code = lastAnalysis'.code
           /\ now - analysisCache[RequestKey].timestamp < getCacheTtlMs)
             => LET first == analysisCache[RequestKey].result
                    shown == ui'.report
                IN /\ ui'.kind = "cachedReport"
                   /\ UNCHANGED pending
                   /\ shown.filePath = first.filePath
                   /\ shown.startLine = first.startLine
                   /\ shown.endLine = first.endLine
                   /\ shown.code = first.code
                   /\ shown.codeAnalysis = first.codeAnalysis
                   /\ shown.gitAnalysis = first.gitAnalysis
                   /\ shown.githubAnalysis = first.githubAnalysis
                   /\ shown.analyzedAt = first.analyzedAt
                   /\ shown.fromCache = TRUE
                   /\ shown.cacheAge >= 0]_vars

\* C3 witness: a report was served from the cache, where it still is, and
\* no invocation is pending.
CacheHitWitness ==
    /\ ui.kind = "cachedReport"
    /\ ui.report.fromCache
    /\ analysisCache[KeyOf(ui.report)] # NoEntry
    /\ analysisCache[KeyOf(ui.report)].result.code = ui.report.code
    /\ pending = EmptyBag

\* C4: a non-forced request whose code hashes differently from the codeHash
\* stored under its key is not served from the cache, whatever the entry's
\* age: the lookup evicts that entry and the request goes on to the
\* credential lookup of a full analysis.
ContentChangeInvalidates ==
    [][(~analysisInProgress /\ NonForcedCall
        /\ analysisCache[RequestKey] # NoEntry
        /\ analysisCache[RequestKey].codeHash # getCodeHash(lastAnalysis'.code))
          => /\ UNCHANGED ui
             /\ analysisCache' = [analysisCache EXCEPT ![RequestKey] = NoEntry]
             /\ pending' = pending (+) SetToBag({RequestInv})]_vars

\* C4 witness: the report shown last is still within its TTL, but its
\* entry was evicted by the latest request, made for the same key with other
\* code, which is now being analysed.
ContentChangeWitness ==
    /\ ui.kind = "report"
    /\ now - ui.report.analyzedAt <= getCacheTtlMs
    /\ \E r \in Invs :
          /\ r.pc = "getKey"
          /\ KeyOf(r) = KeyOf(ui.report)
          /\ lastAnalysis.code = r.code
          /\ getCodeHash(r.code) # getCodeHash(ui.report.code)
          /\ analysisCache[KeyOf(r)] = NoEntry

\* C5: an entry older than the TTL is not served even for unchanged code:
\* the lookup evicts it and the request goes on to a full analysis; an
\* analysis that completes stores a fresh entry, stamped with the current
\* time, under its key.
ExpiryInvalidates ==
    [][/\ (~analysisInProgress /\ NonForcedCall
           /\ analysisCache[RequestKey] # NoEntry
           /\ now - analysisCache[RequestKey].timestamp > getCacheTtlMs)
            => /\ UNCHANGED ui
               /\ analysisCache' = [analysisCache EXCEPT ![RequestKey] = NoEntry]
               /\ pending' = pending (+) SetToBag({RequestInv})
       /\ \A r \in Invs :
             ((\E res \in GithubResults : githubSettles(r, res)) /\ ~analysisCancelled)
               => /\ analysisCache'[KeyOf(r)].timestamp = now
                  /\ analysisCache'[KeyOf(r)].codeHash = getCodeHash(r.code)
                  /\ analysisCache'[KeyOf(r)].result.analyzedAt = now
                  /\ now - analysisCache'[KeyOf(r)].timestamp <= getCacheTtlMs]_vars

\* C5 witness: the report shown last has outlived the TTL and its entry was
\* evicted by the latest request, made for the same key and code, which is
\* being re-analysed.
ExpiryWitness ==
    /\ ui.kind = "report"
    /\ now - ui.report.analyzedAt > getCacheTtlMs
    /\ \E r \in Invs :
          /\ r.pc = "getKey"
          /\ KeyOf(r) = KeyOf(ui.report)
          /\ r.code = ui.report.code
          /\ lastAnalysis.code = r.code
          /\ analysisCache[KeyOf(r)] = NoEntry

\* C6: once the user has requested cancellation of an analysis, the return
\* of the stage in flight ends it: no further stage, no cache write, no
\* report and no error message.
CancellationIsCleanNoOp ==
    [][\A r \in Invs :
          (r.cancelRequested /\ (StageReturns(r) \/ StageThrows(r)))
             => /\ pending' = Without(r)
                /\ UNCHANGED <<analysisCache, ui>>]_vars

DegradedPipeline(r) ==
    /\ (keyResolved(r) /\ ~claudeKey)
          => /\ pending' = Replace(r, [r EXCEPT !.pc = "prompt"])
             /\ UNCHANGED analysisCache
    /\ (codeGetClient(r) /\ ~claudeKey)
          => pending' = Replace(r, [r EXCEPT !.pc = "codePrompt"])
    /\ (r.pc = "codePrompt" /\ ~analysisCancelled
        /\ \E res \in CodeResults : codeSettles(r, res))
          => pending' = Replace(r, [r EXCEPT !.pc = "github",
                                            !.codeAnalysis = "static",
                                            !.githubCommits = r.gitAnalysis])
    /\ (r.codeAnalysis = "static" /\ ~analysisCancelled
        /\ \E res \in GithubResults : githubSettles(r, res))
          => /\ ui'.kind = "report"
             /\ ui'.report.codeAnalysis = "static"
             /\ analysisCache'[KeyOf(r)].result = ui'.report

AllRetryable ==
    \A k \in DOMAIN retry.thrown :
        retryableErrors(retry.classifier, retry.thrown[k])

\* C8: with maxAttempts >= 1, an operation that fails every call with a
\* retryable error is called exactly maxAttempts times with maxAttempts - 1
\* sleeps in between, and withRetry rejects with the last attempt's error.
RetryExhaustion ==
    /\ retry.calls <= retry.maxAttempts
    /\ (retry.pc = "rejected" /\ retry.maxAttempts >= 1 /\ AllRetryable)
          => /\ retry.calls = retry.maxAttempts
             /\ Len(retry.thrown) = retry.maxAttempts
             /\ Len(retry.sleeps) = retry.maxAttempts - 1
             /\ retry.lastError = retry.thrown[Len(retry.thrown)]

\* C8 witness: three attempts failed with retryable errors, the last with
\* another error than the first, and withRetry has rejected.
RetryExhaustionWitness ==
    /\ retry.pc = "rejected"
    /\ retry.maxAttempts = 3
    /\ retry.calls = 3
    /\ AllRetryable
    /\ Len(retry.sleeps) = 2
    /\ retry.thrown[1] # retry.thrown[3]

\* the delays slept so far start at initialDelayMs, never decrease and never
\* exceed maxDelayMs
DelaysWellFormed ==
    LET sl == retry.sleeps
    IN sl # <<>> =>
          /\ sl[1] = retry.initialDelayMs
          /\ \A k \in DOMAIN sl : sl[k] <= retry.maxDelayMs
          /\ \A k \in DOMAIN sl : k + 1 \in DOMAIN sl => sl[k] <= sl[k + 1]

\* C9 as stated: for every retry policy the delays slept between attempts
\* start at initialDelayMs, are non-decreasing and are at most maxDelayMs.
BackoffDelaysOriginal == DelaysWellFormed

\* C9 amended: for every retry policy with backoffMultiplier >= 1 and
\* 0 <= initialDelayMs <= maxDelayMs the delays slept between attempts start
\* at initialDelayMs, are non-decreasing and are at most maxDelayMs.
BackoffDelays ==
    (/\ retry.backoffMultiplier >= 1
     /\ 0 <= retry.initialDelayMs
     /\ retry.initialDelayMs <= retry.maxDelayMs) => DelaysWellFormed

\* C9 witness: two sleeps under such a policy, the second one capped.
BackoffDelaysWitness ==
    /\ Len(retry.sleeps) >= 2
    /\ retry.backoffMultiplier >= 1
    /\ retry.initialDelayMs <= retry.maxDelayMs
    /\ retry.sleeps[1] < retry.sleeps[2]
    /\ retry.sleeps[2] = retry.maxDelayMs
    /\ retry.sleeps[1] * retry.backoffMultiplier > retry.maxDelayMs

\* C10: a reasoning-service call that exceeds its deadline on every attempt
\* is attempted API_MAX_RETRIES times before analyze returns the heuristic
\* strategy's result.
TimeoutsAreRetried ==
    (/\ retry.caller = "analyze"
     /\ retry.analysis # Null
     /\ retry.thrown # <<>>
     /\ \A k \in DOMAIN retry.thrown : retry.thrown[k] = "ClaudeTimeout")
       => /\ retry.calls = API_MAX_RETRIES
          /\ retry.analysis = "static"

\* C11: whatever makes the reasoning-service strategy fail (deadline
\* exceeded, retries exhausted, a non-retryable error, a non-text or
\* unparseable response, an exception while validating fields), analyze
\* returns the result of analyzeStatic for its own code and path, and no
\* exception escapes it.
SummarizerFailOver ==
    (retry.caller = "analyze" /\ retry.pc = "rejected" /\ retry.analysis # Null)
       => /\ retry.analysis = "static"
          /\ retry.staticArgs = [code |-> retry.code, filePath |-> retry.filePath]
          /\ retry.thrown # <<>>
          /\ retry.lastError \in {"ClaudeTimeout", "Overloaded", "ParseFailed",
                                   "UnexpectedType", "TypeError"}

\* C11 witness: the service was overloaded on the first two attempts, the
\* third response failed field validation, and analyze returned the
\* heuristic result for the second code text.
SummarizerFailOverWitness ==
    /\ retry.caller = "analyze"
    /\ retry.analysis = "static"
    /\ retry.thrown = <<"Overloaded", "Overloaded", "TypeError">>
    /\ retry.staticArgs.code = "c2"

(***************************************************************************)
(* Properties of the review-link resolver (checked under SpecGithub).      *)
(***************************************************************************)
\* the PR numbers of a list of PullRequestInfo
Numbers(prs) == {prs[k].number : k \in DOMAIN prs}

\* analyze has returned after starting lookups
LookedUp == gh.pc = "returned" /\ gh.requested

\* every PullRequestInfo at hand: in the settled lookups, in prsMap and in
\* the returned section
Produced ==
    UNION {{gh.lookups[k].value[j] : j \in DOMAIN gh.lookups[k].value} :
              k \in {x \in DOMAIN gh.lookups : gh.lookups[x].status # "pending"}}
    \cup {gh.prsMap[k] : k \in DOMAIN gh.prsMap}
    \cup IF gh.pc = "returned"
         THEN {gh.result.pullRequests[k] : k \in DOMAIN gh.result.pullRequests}
         ELSE {}

\* C13: when lookups have failed (HTTP 401, 403, another non-2xx status, or
\* the local deadline), the section analyze returns carries an error
\* annotation; when none has failed (HTTP 200 and 404 only) it carries none.
RemoteErrorsSurfaced ==
    LookedUp => /\ gh.failed # {} => gh.result.error # Null
                /\ gh.failed = {} => gh.result.error = Null

\* C14: whichever lookups fail, analyze returns normally, and the PRs it
\* returns are those found by the successful lookups, all of them unless
\* the limit maxPRs was reached.
FailedLookupDoesNotFailBatch ==
    /\ \A k \in DOMAIN gh.lookups : gh.lookups[k].status # "rejected"
    /\ LookedUp
          => /\ Numbers(gh.result.pullRequests) \subseteq gh.found
             /\ \/ gh.found \subseteq Numbers(gh.result.pullRequests)
                \/ Len(gh.result.pullRequests) = gh.maxPRs

\* C14 witness: some lookups failed and others succeeded, and every PR found
\* is returned.
FailedLookupWitness ==
    /\ LookedUp
    /\ gh.failed # {}
    /\ gh.found # {}
    /\ Numbers(gh.result.pullRequests) = gh.found

\* C15: the PRs collected and returned have pairwise distinct numbers and
\* are at most maxPRs, and a batch of lookups is only in flight while fewer
\* than maxPRs have been collected.
PRDedupAndCap ==
    /\ \A j, k \in DOMAIN gh.prsMap :
          gh.prsMap[j].number = gh.prsMap[k].number => j = k
    /\ Len(gh.prsMap) <= gh.maxPRs
    /\ gh.pc = "allSettled" => Len(gh.prsMap) < gh.maxPRs
    /\ gh.pc = "returned"
          => /\ Len(gh.result.pullRequests) <= gh.maxPRs
             /\ \A j, k \in DOMAIN gh.result.pullRequests :
                   gh.result.pullRequests[j].number = gh.result.pullRequests[k].number
                      => j = k

\* C15 witness: the first batch found more PRs than the limit, some of them
\* twice; the limit was returned and the second batch was not started.
PRDedupAndCapWitness ==
    /\ LookedUp
    /\ gh.commits > PR_BATCH_SIZE
    /\ gh.batches = 1
    /\ Cardinality(gh.found) > gh.maxPRs
    /\ Len(gh.result.pullRequests) = gh.maxPRs
    /\ gh.maxPRs = MaxPRsBound

\* C16: a PullRequestInfo with a non-null mergedAt has state "merged",
\* whatever the raw state; one with a null mergedAt has the raw state.
PRStatePrecedence ==
    \A pr \in Produced :
        /\ pr.mergedAt # Null => pr.state = "merged"
        /\ pr.mergedAt = Null => pr.state = RawPR(pr.number).state

\* C16 witness: a lookup produced a merged PR whose raw state is open and an
\* unmerged one whose raw state is closed.
PRStatePrecedenceWitness ==
    \E k \in DOMAIN gh.lookups :
        /\ gh.lookups[k].status = "fulfilled"
        /\ \E pr \in Produced :
              pr.state = "merged" /\ RawPR(pr.number).state = "open"
        /\ \E j \in DOMAIN gh.lookups[k].value :
              /\ gh.lookups[k].value[j].state = "closed"
              /\ gh.lookups[k].value[j].mergedAt = Null

\* the origin is absent or not a GitHub URL, or there is no token
PreconditionFails ==
    \/ gh.remoteUrl = Null
    \/ gh.remoteUrl # Null /\ parseGitHubUrl(urlText(gh.remoteUrl)) = NoRepo
    \/ ~gh.token

\* C17: with the origin absent or unparseable, or the token absent, analyze
\* starts no lookup and returns an empty PR list with a non-empty error.
ResolverPreconditionsNonFatal ==
    PreconditionFails
       => /\ gh.pc \in {"getRemoteUrl", "getToken", "returned"}
          /\ ~gh.requested
          /\ gh.pc = "returned"
                => /\ gh.result.pullRequests = <<>>
                   /\ gh.result.error \notin {Null, ""}

\* C17 witness: analyze has returned for a GitHub origin (in the SSH form)
\* without a token.
ResolverPreconditionsWitness ==
    /\ gh.pc = "returned"
    /\ gh.remoteUrl = "ssh"
    /\ ~gh.token
    /\ gh.result.repoUrl = UrlHttps
    /\ gh.result.error = ErrNoToken
    /\ gh.result.pullRequests = <<>>

(***************************************************************************)
(* Properties of the history miner (checked under SpecGit).                *)
(***************************************************************************)
\* analyze has returned a result to its caller
GitReturned == git.pc = "returned"

\* the author identity of a commit: the e-mail if non-empty, else the name
AuthorIdentity(commit) ==
    IF commit.authorEmail = "" THEN commit.author ELSE commit.authorEmail

\* the number of commits of a list written by one author identity
CommitsOf(commits, identity) ==
    Cardinality({k \in DOMAIN commits : AuthorIdentity(commits[k]) = identity})

\* the identity of an owner: the e-mail if non-empty, else the name
IdentityOf(owner) == IF owner.email # "" THEN owner.email ELSE owner.name

\* the position of the first commit of an identity in a list
FirstAppearance(commits, identity) ==
    CHOOSE k \in DOMAIN commits :
        /\ AuthorIdentity(commits[k]) = identity
        /\ \A j \in 1..(k - 1) : AuthorIdentity(commits[j]) # identity

RECURSIVE SumOf(_, _)
SumOf(owners, field) ==
    IF owners = <<>> THEN 0
    ELSE owners[Len(owners)][field] + SumOf(SubSeq(owners, 1, Len(owners) - 1), field)

Distance(a, b) == IF a >= b THEN a - b ELSE b - a

OwnershipPercentages ==
    GitReturned /\ git.result.commits # <<>>
       => LET commits == git.result.commits
              owners == git.result.owners
              total == Len(commits)
          IN /\ owners # <<>>
             /\ \A k \in DOMAIN owners :
                   LET n == CommitsOf(commits, IdentityOf(owners[k]))
                   IN /\ owners[k].percentage \in 0..100
                      /\ owners[k].percentage = MathRound(100 * n, total)
                      /\ 2 * Distance(owners[k].percentage * total, 100 * n) <= total
             /\ 2 * Distance(SumOf(owners, "percentage"), 100) <= Len(owners)

\* C19 witness: of eight commits one owner wrote one (12.5 per cent, given
\* as 13) and the percentages sum to 101.
OwnershipPercentagesWitness ==
    /\ GitReturned
    /\ Len(git.result.commits) = 8
    /\ \E k \in DOMAIN git.result.owners :
          /\ git.result.owners[k].commits = 1
          /\ git.result.owners[k].percentage = 13
    /\ SumOf(git.result.owners, "percentage") = 101

\* C20: the owners are the author identities of the commits (e-mail if
\* non-empty, else name), one owner each, with the number of that identity's
\* commits; the counts sum to the number of commits; the owners are in
\* descending order of commits and in order of first appearance among equal
\* counts; three commits by two authors, two and one, give 67 and 33 per cent.
OwnershipGrouping ==
    GitReturned
       => LET commits == git.result.commits
              owners == git.result.owners
          IN /\ {IdentityOf(owners[k]) : k \in DOMAIN owners}
                   = {AuthorIdentity(commits[k]) : k \in DOMAIN commits}
             /\ \A j, k \in DOMAIN owners :
                   IdentityOf(owners[j]) = IdentityOf(owners[k]) => j = k
             /\ \A k \in DOMAIN owners :
                   owners[k].commits = CommitsOf(commits, IdentityOf(owners[k]))
             /\ SumOf(owners, "commits") = Len(commits)
             /\ \A j, k \in DOMAIN owners :
                   j < k => \/ owners[j].commits > owners[k].commits
                            \/ /\ owners[j].commits = owners[k].commits
                               /\ FirstAppearance(commits, IdentityOf(owners[j]))
                                     < FirstAppearance(commits, IdentityOf(owners[k]))
             /\ Len(commits) = 3 /\ Len(owners) = 2
                   => /\ owners[1].commits = 2 /\ owners[1].percentage = 67
                      /\ owners[2].commits = 1 /\ owners[2].percentage = 33

\* C20 witness: three commits, the first by the author without an e-mail
\* address and the next two by the author of the same name with one; the
\* owner with two commits comes first with 67 per cent.
OwnershipGroupingWitness ==
    /\ GitReturned
    /\ Len(git.result.commits) = 3
    /\ git.result.commits[1].authorEmail = ""
    /\ Len(git.result.owners) = 2
    /\ git.result.owners[1].email = "bob@x.io"
    /\ git.result.owners[1].commits = 2
    /\ git.result.owners[1].percentage = 67
    /\ git.result.owners[2].email = ""
    /\ git.result.owners[2].name = "bob"
    /\ git.result.owners[2].commits = 1
    /\ git.result.owners[2].percentage = 33

(***************************************************************************)
(* Properties of the purpose summarizer (checked under SpecSummarizer).    *)
(***************************************************************************)
\* an analysis has been returned by the reasoning-service mapping
MappedResponse == summarizer.pc = "returned" /\ "analysis" \in DOMAIN summarizer

\* an analysis has been returned by the heuristic strategy
StaticReturned == summarizer.pc = "returned" /\ "code" \in DOMAIN summarizer

\* a list of risks goes from critical through high and medium to low
RisksInOrder(risks) ==
    \A j, k \in DOMAIN risks :
        j < k => riskOrder(risks[j].level) <= riskOrder(risks[k].level)

\* C21: in every returned analysis, from a reasoning-service response or from
\* the heuristic strategy, the risks are ordered critical, high, medium, low.
RisksSortedCriticalFirst ==
    summarizer.pc = "returned" => RisksInOrder(summarizer.result.risks)

\* the pair by which suggested tests are told apart: the type and the
\* lower-cased, trimmed description
PairOf(test) == <<test.type, trim(toLowerCase(test.description.chars))>>

\* the suggested tests of the response, each with its fields validated
ValidatedTests ==
    [k \in DOMAIN summarizer.analysis.suggestedTests.a |->
        toTest(summarizer.analysis.suggestedTests.a[k])]

\* the position of the first test of a list with a given pair
FirstWithPair(tests, pair) ==
    CHOOSE k \in DOMAIN tests :
        /\ PairOf(tests[k]) = pair
        /\ \A j \in 1..(k - 1) : PairOf(tests[j]) # pair

\* C22: for an array of suggested tests, validateSuggestedTests returns a
\* list in which no two entries share the pair (type, lower-cased trimmed
\* description), which holds for every pair of the input its first
\* occurrence, and which is ordered high, medium, low with the input order
\* kept among equal priorities.
SuggestedTestsDedupedAndPrioritised ==
    MappedResponse /\ summarizer.analysis.suggestedTests.t = "array"
       => LET tests == ValidatedTests
              out == summarizer.result.suggestedTests
          IN /\ \A j, k \in DOMAIN out : PairOf(out[j]) = PairOf(out[k]) => j = k
             /\ {PairOf(out[k]) : k \in DOMAIN out} = {PairOf(tests[k]) : k \in DOMAIN tests}
             /\ \A k \in DOMAIN out : out[k] = tests[FirstWithPair(tests, PairOf(out[k]))]
             /\ \A j, k \in DOMAIN out :
                   j < k => \/ priorityOrder(out[j].priority) < priorityOrder(out[k].priority)
                            \/ /\ out[j].priority = out[k].priority
                               /\ FirstWithPair(tests, PairOf(out[j]))
                                     < FirstWithPair(tests, PairOf(out[k]))

\* C22 witness: of three suggested tests the second repeats the first with
\* other capitals and blanks and is dropped, and the third, of high priority,
\* is moved before the first, of low priority.
SuggestedTestsWitness ==
    /\ MappedResponse
    /\ summarizer.analysis.suggestedTests.t = "array"
    /\ Len(summarizer.analysis.suggestedTests.a) = 3
    /\ ValidatedTests[1] = [type |-> "unit", description |-> Text_run_padded, priority |-> "low", reason |-> Undefined]
    /\ ValidatedTests[2] = [type |-> "unit", description |-> Text_Run, priority |-> "high", reason |-> Undefined]
    /\ summarizer.result.suggestedTests =
          <<[type |-> "e2e", description |-> Text_Run, priority |-> "high", reason |-> Undefined],
            [type |-> "unit", description |-> Text_run_padded, priority |-> "low", reason |-> Undefined]>>

\* the value of a response field is one of the listed strings
Recognised(x, valid) == x.t = "string" /\ x.v \in valid

\* every element of the risks and of the suggested tests of the response is
\* an object, and every description of a test is a string or absent
ElementsWellFormed ==
    LET analysis == summarizer.analysis
    IN /\ analysis.risks.t = "array"
             => \A k \in DOMAIN analysis.risks.a : analysis.risks.a[k].t = "object"
       /\ analysis.suggestedTests.t = "array"
             => \A k \in DOMAIN analysis.suggestedTests.a :
                   /\ analysis.suggestedTests.a[k].t = "object"
                   /\ get(analysis.suggestedTests.a[k], "description").t \in {"text", "undefined"}

\* the category, the complexity and the three plain list fields of a mapped
\* response are the values of the response or their defaults
EnumsAndPlainListsDefaulted ==
    LET analysis == summarizer.analysis
        result == summarizer.result
    IN /\ result.mainPurposeCategory =
             IF Recognised(analysis.mainPurposeCategory, validCategories)
             THEN analysis.mainPurposeCategory.v ELSE "unknown"
       /\ result.complexity =
             IF Recognised(analysis.complexity, ComplexityLevels)
             THEN analysis.complexity.v ELSE "medium"
       /\ analysis.dependencies.t # "array" => result.dependencies = <<>>
       /\ analysis.exports.t # "array" => result.exports = <<>>
       /\ analysis.potentialPurposes.t # "array" => result.potentialPurposes = <<>>
       /\ analysis.suggestedTests.t # "array" => result.suggestedTests = <<>>

\* C23 as stated: an unrecognised or absent category gives 'unknown', an
\* unrecognised complexity gives 'medium', every list field that is not an
\* array, risks among them, gives an empty sequence, and no such field makes
\* the mapping fail.
ParseWithDefaultsOriginal ==
    "analysis" \in DOMAIN summarizer
       => /\ ElementsWellFormed => summarizer.pc # "threw"
          /\ MappedResponse
                => /\ EnumsAndPlainListsDefaulted
                   /\ summarizer.analysis.risks.t # "array"
                         => summarizer.result.risks = <<>>

\* C23 as the code has it: the same, except that risks that are not an
\* array give the single default risk of level low.
ParseWithDefaults ==
    "analysis" \in DOMAIN summarizer
       => /\ ElementsWellFormed => summarizer.pc # "threw"
          /\ MappedResponse
                => /\ EnumsAndPlainListsDefaulted
                   /\ summarizer.analysis.risks.t # "array"
                         => /\ Len(summarizer.result.risks) = 1
                            /\ summarizer.result.risks[1].level = "low"
                            /\ summarizer.result.risks[1].description = Str("No specific risks identified")

\* C23 witness: a response with an unknown category, an unknown complexity
\* and no array in any list field has been mapped.
ParseWithDefaultsWitness ==
    /\ MappedResponse
    /\ summarizer.analysis.mainPurposeCategory = Str("banana")
    /\ summarizer.analysis.complexity = Str("extreme")
    /\ summarizer.analysis.dependencies = Str("fs")
    /\ summarizer.analysis.exports = JsNull
    /\ summarizer.analysis.potentialPurposes = Undefined
    /\ summarizer.analysis.risks = Str("none")
    /\ summarizer.analysis.suggestedTests = JsNull
    /\ summarizer.result.mainPurposeCategory = "unknown"
    /\ summarizer.result.complexity = "medium"
    /\ summarizer.result.dependencies = <<>>
    /\ summarizer.result.suggestedTests = <<>>
    /\ Len(summarizer.result.risks) = 1

\* the categories of the rules in the order in which the claim lists them
RuleOrder == <<"testing", "authentication", "security", "infrastructure", "ui-ux", "data-access", "api-client", "performance", "legacy", "utility", "business-logic">>

\* whether the rule of a category matches the input of the heuristic strategy
RuleMatches(category) ==
    LET code == summarizer.code
        fileName == toLowerCase(basename(summarizer.filePath))
        codeType == summarizer.codeType
    IN CASE category = "testing" -> isTesting(code, fileName, codeType)
         [] category = "authentication" -> isAuthentication(code, fileName, codeType)
         [] category = "security" -> isSecurity(code, fileName, codeType)
         [] category = "infrastructure" -> isInfrastructure(code, fileName, codeType)
         [] category = "ui-ux" -> isUiUx(code, fileName, codeType)
         [] category = "data-access" -> isDataAccess(code, fileName, codeType)
         [] category = "api-client" -> isApiClient(code, fileName, codeType)
         [] category = "performance" -> isPerformance(code, fileName, codeType)
         [] category = "legacy" -> isLegacy(code, fileName, codeType)
         [] category = "utility" -> isUtility(code, fileName, codeType)
         [] category = "business-logic" -> codeType \in {"class", "function", "module"}

MatchingRules == {k \in DOMAIN RuleOrder : RuleMatches(RuleOrder[k])}

\* C24: inferMainPurposeCategory returns the category of the first rule that
\* matches in the order testing, authentication, security, infrastructure,
\* ui-ux, data-access, api-client, performance, legacy, utility,
\* business-logic, and unknown when none matches; code with 'login' and
\* 'token' in auth.ts that is not test code is 'authentication'.
HeuristicCategoryChain ==
    StaticReturned
       => /\ summarizer.result.mainPurposeCategory =
                IF MatchingRules = {} THEN "unknown"
                ELSE RuleOrder[CHOOSE k \in MatchingRules : \A j \in MatchingRules : k <= j]
          /\ (summarizer.code = Code_login_token /\ summarizer.filePath = Path_auth_ts /\ summarizer.codeType # "test")
                => summarizer.result.mainPurposeCategory = "authentication"

\* C24 witness: for code with 'encrypt' and 'password' in a class of auth.ts
\* the rules of authentication, security and business-logic match and the
\* category is 'authentication'.
HeuristicCategoryWitness ==
    /\ StaticReturned
    /\ summarizer.code = Code_encrypt_password
    /\ summarizer.filePath = Path_auth_ts
    /\ summarizer.codeType = "class"
    /\ {RuleOrder[k] : k \in MatchingRules} = {"authentication", "security", "business-logic"}
    /\ summarizer.result.mainPurposeCategory = "authentication"

(***************************************************************************)
(* Further properties of the orchestrator and its cache (checked under     *)
(* Spec).                                                                  *)
(***************************************************************************)
SummarizerPcs == {"code", "codeClaude", "codePrompt"}

\* C25: the summarizer and the resolver are invoked only after the history
\* miner has returned, the resolver only after the summarizer has returned
\* too, each with the commit list the history miner returned, and a report
\* is assembled only in the step in which the resolver returns, from the
\* three results.
StageOrdering ==
    [][/\ \A r \in BagToSet(pending') :
             /\ r.pc \in {"openDoc", "getKey", "prompt", "git"}
                   => /\ r.gitAnalysis = Null /\ r.codeCommits = Null
                      /\ r.codeAnalysis = Null /\ r.githubCommits = Null
             /\ r.pc \in SummarizerPcs
                   => /\ r.gitAnalysis \in GitResults
                      /\ r.codeCommits = r.gitAnalysis
                      /\ r.codeAnalysis = Null /\ r.githubCommits = Null
             /\ r.pc = "github"
                   => /\ r.gitAnalysis \in GitResults
                      /\ r.codeCommits = r.gitAnalysis
                      /\ r.codeAnalysis \in CodeResults
                      /\ r.githubCommits = r.gitAnalysis
       /\ (ui' # ui /\ ui'.kind = "report")
             => \E r \in Invs :
                   /\ r.pc = "github"
                   /\ \E res \in GithubResults :
                         /\ githubSettles(r, res)
                         /\ ui'.report.githubAnalysis = res
                   /\ ui'.report.gitAnalysis = r.gitAnalysis
                   /\ ui'.report.codeAnalysis = r.codeAnalysis
                   /\ r.gitAnalysis \in GitResults
                   /\ r.codeAnalysis \in CodeResults]_vars

\* C25 witness: the resolver is running with the commit list of the history
\* miner, after the summarizer returned.
StageOrderingWitness ==
    \E r \in Invs :
       /\ r.pc = "github"
       /\ r.gitAnalysis \in GitResults
       /\ r.codeCommits = r.gitAnalysis
       /\ r.githubCommits = r.gitAnalysis
       /\ r.codeAnalysis = "claude"

\* a step in which the refresh command, suspended as r, calls analyzeCode
RefreshCalls(r) ==
    /\ r.pc = "openDoc"
    /\ CopiesIn(r, pending') < CopiesIn(r, pending)

\* the key recorded in lastAnalysis before the step
LastKey == <<lastAnalysis.filePath, lastAnalysis.startLine, lastAnalysis.endLine>>

\* C26: a request made with forceRefresh while no analysis is in progress
\* looks nothing up, whatever the cache holds for its key: the cache is left
\* as it is, no cached report is shown and the request goes on to the stages;
\* when its three stages have returned, the report delivered has no fromCache
\* annotation and replaces the entry of its key, with the current time and
\* the hash of its code.
ForceRefreshBypassesCache ==
    [][\A r \in Invs :
          /\ (RefreshCalls(r) /\ ~analysisInProgress)
                => /\ UNCHANGED <<analysisCache, ui>>
                   /\ RequestKey = LastKey
                   /\ pending' = Without(r) (+) SetToBag({[RequestInv EXCEPT !.forceRefresh = TRUE]})
          /\ r.forceRefresh
                => /\ r \in BagToSet(pending') \/ r.pc # "getKey"
                      \/ \E r2 \in BagToSet(pending') :
                            /\ r2.forceRefresh /\ KeyOf(r2) = KeyOf(r)
                            /\ r2.pc \in {"git", "prompt"}
                   /\ ((\E res \in GithubResults : githubSettles(r, res)) /\ ~analysisCancelled)
                         => /\ ui'.kind = "report"
                            /\ "fromCache" \notin DOMAIN ui'.report
                            /\ ui'.report.gitAnalysis \in GitResults
                            /\ ui'.report.codeAnalysis \in CodeResults
                            /\ ui'.report.githubAnalysis \in GithubResults
                            /\ analysisCache'[KeyOf(r)] =
                                  [result |-> ui'.report,
                                   codeHash |-> getCodeHash(r.code),
                                   timestamp |-> now]]_vars

\* C26 witness: a forced request is in its last stage while the cache holds
\* a valid entry for its key and code.
ForceRefreshWitness ==
    \E r \in Invs :
       /\ r.forceRefresh
       /\ r.pc = "github"
       /\ analysisCache[KeyOf(r)] # NoEntry
       /\ analysisCache[KeyOf(r)].codeHash = getCodeHash(r.code)
       /\ now - analysisCache[KeyOf(r)].timestamp < getCacheTtlMs

\* the cache holds no entry
CacheEmpty == \A k \in Keys : analysisCache[k] = NoEntry

\* a step in which the clearCache command runs
ClearCacheRuns ==
    /\ ui'.kind = "cacheCleared"
    /\ UNCHANGED <<pending, lastAnalysis, now>>
    /\ ui' # ui \/ analysisCache' # analysisCache

\* C27: clearCache leaves no entry and reports as count the number of
\* entries the cache held before the call; while the cache is empty a
\* non-forced request is never shown a cached report and goes on to a full
\* analysis; and an empty cache gets an entry only in the step in which an
\* analysis completes and writes it.
ClearCacheEmpties ==
    [][/\ ClearCacheRuns
            => /\ ui'.report.count = Cardinality({k \in Keys : analysisCache[k] # NoEntry})
               /\ \A k \in Keys : analysisCache'[k] = NoEntry
       /\ (CacheEmpty /\ ~analysisInProgress /\ NonForcedCall)
            => /\ ui'.kind # "cachedReport"
               /\ UNCHANGED <<ui, analysisCache>>
               /\ pending' = pending (+) SetToBag({RequestInv})
       /\ (CacheEmpty /\ analysisCache' # analysisCache)
            => \E r \in Invs :
                  /\ \E res \in GithubResults : githubSettles(r, res)
                  /\ ~analysisCancelled
                  /\ analysisCache' = [analysisCache EXCEPT ![KeyOf(r)] = analysisCache'[KeyOf(r)]]
                  /\ analysisCache'[KeyOf(r)].result = ui'.report]_vars

\* C27 witness: clearCache has removed at least one entry, and a non-forced
\* request for the code of the report that was cached has missed the empty
\* cache and is being analysed.
ClearCacheWitness ==
    /\ ui.kind = "cacheCleared"
    /\ ui.report.count >= 1
    /\ CacheEmpty
    /\ \E r \in Invs : r.pc \in StagePcs /\ ~r.forceRefresh

\* C28: a non-forced request finds an entry whose age is not strictly less
\* than the TTL: the entry is not served and the lookup evicts it.
StrictTtlBound ==
    [][(~analysisInProgress /\ NonForcedCall
        /\ analysisCache[RequestKey] # NoEntry
        /\ now - analysisCache[RequestKey].timestamp >= getCacheTtlMs)
          => /\ ui'.kind # "cachedReport"
             /\ analysisCache'[RequestKey] = NoEntry]_vars

\* C29: provided every stage call settles, whenever analysisInProgress is
\* set it is reset later, and whenever invocations are in their stages a
\* state follows in which none is and the flag is false; a step in which an
\* invocation leaves the stages (report, cancellation check or exception)
\* resets the flag; and a request made while the flag is false is accepted:
\* it is served from the cache or starts an invocation of its own.
BusyFlagReleased ==
    /\ analysisInProgress ~> ~analysisInProgress
    /\ (InStages # EmptyBag) ~> (InStages = EmptyBag /\ ~analysisInProgress)
    /\ [][/\ (BagCardinality(InStages') < BagCardinality(InStages))
                 => ~analysisInProgress'
          /\ (~analysisInProgress
              /\ (NonForcedCall \/ \E r \in Invs : RefreshCalls(r)))
                 => \/ ui'.kind = "cachedReport"
                    \/ \E r2 \in BagToSet(pending') :
                          /\ r2.pc = "getKey"
                          /\ CopiesIn(r2, pending') > CopiesIn(r2, pending)]_vars

\* C29 witness: an analysis was cancelled and has returned at a cancellation
\* check: no invocation is in its stages and the flag is false again.
BusyFlagReleasedWitness ==
    /\ analysisCancelled
    /\ ui.kind = "cancelled"
    /\ ~analysisInProgress
    /\ pending = EmptyBag
    /\ issued > 0

(***************************************************************************)
(* Further properties of the review-link resolver (checked under           *)
(* SpecGithub).                                                            *)
(***************************************************************************)
\* the commits whose lookup has been started and has not settled
InFlight == {k \in DOMAIN gh.lookups : gh.lookups[k].status = "pending"}

\* C30: at most PR_BATCH_SIZE lookups are in flight; the lookups started
\* are those of one batch of at most PR_BATCH_SIZE consecutive commits among
\* the first MAX_COMMITS_TO_SEARCH_PRS of the list, and at most
\* MAX_COMMITS_TO_SEARCH_PRS / PR_BATCH_SIZE batches are started; and a
\* batch is started only when no lookup of the batch before, a retried one
\* included, is still in flight.
BoundedFanOut ==
    /\ [](gh.pc # "off"
            => /\ Cardinality(InFlight) <= PR_BATCH_SIZE
               /\ Cardinality(DOMAIN gh.lookups) <= PR_BATCH_SIZE
               /\ \A k \in DOMAIN gh.lookups :
                     /\ k >= 1
                     /\ k <= gh.commits
                     /\ k <= MAX_COMMITS_TO_SEARCH_PRS
                     /\ k > PR_BATCH_SIZE * (gh.batches - 1)
                     /\ k <= PR_BATCH_SIZE * gh.batches
               /\ PR_BATCH_SIZE * gh.batches < MAX_COMMITS_TO_SEARCH_PRS + PR_BATCH_SIZE)
    /\ [][(gh.pc # "off" /\ gh'.batches # gh.batches)
            => /\ gh'.batches = gh.batches + 1
               /\ InFlight = {}
               /\ \A k \in DOMAIN gh'.lookups : gh'.lookups[k] = NewLookup]_vars

\* C30 witness: of a list of more than MAX_COMMITS_TO_SEARCH_PRS commits the
\* last batch searched is in flight, PR_BATCH_SIZE lookups at once, one of
\* them retried.
BoundedFanOutWitness ==
    /\ gh.pc = "allSettled"
    /\ gh.commits > MAX_COMMITS_TO_SEARCH_PRS
    /\ gh.i + PR_BATCH_SIZE = MAX_COMMITS_TO_SEARCH_PRS
    /\ Cardinality(InFlight) = PR_BATCH_SIZE
    /\ \E k \in InFlight : gh.lookups[k].attempt > 1

(***************************************************************************)
(* Properties of withTimeout (checked under SpecTimeout).                  *)
(***************************************************************************)
\* C31: the promise withTimeout returns settles once, with the first event.
\* When the operation settles before the timer fires, the timer is cleared
\* and never rejects, and the result is the operation's value or error; when
\* the timer fires first the result is the timeout error, and stays it
\* whatever the operation settles with later.
TimeoutSettlesOnceWithFirstEvent ==
    /\ [](retry.pc = "withTimeout"
            => /\ (retry.first = "operation" /\ retry.job = "done")
                     => /\ retry.result = retry.promise
                        /\ retry.timer = "cleared"
               /\ retry.first = "operation" => retry.timer # "fired"
               /\ retry.first = "timer"
                     => /\ retry.result = TimedOut(retry.timeoutMessage)
                        /\ retry.timer = "fired"
               /\ retry.first = "none" => retry.result = Unsettled)
    /\ [][(retry.pc = "withTimeout" /\ retry.result # Unsettled)
            => retry'.result = retry.result]_vars

\* C31 witness: the timer fired first and the operation fulfilled afterwards;
\* its reaction has run and the result is still the timeout error.
TimeoutWitness ==
    /\ retry.pc = "withTimeout"
    /\ retry.first = "timer"
    /\ retry.promise.state = "fulfilled"
    /\ retry.job = "done"
    /\ retry.result = TimedOut(retry.timeoutMessage)

(***************************************************************************)
(* Properties of withRetry with any hook (checked under SpecRetryHook).    *)
(***************************************************************************)
\* the errors fn has thrown before its latest call
Retried == SubSeq(retry.thrown, 1, Len(retry.thrown) - 1)

\* C32: onRetry is called once before each retry, with the number of the
\* failed attempt and before the sleep, and never otherwise; and the hook
\* decides nothing: withRetry ends only with a fulfilment of fn, with the
\* last attempt or with an error that is not retryable, and rejects with the
\* error of fn, whether the hook returns or throws.
HookIsSideEffectOnly ==
    (retry.pc \in {"call", "sleep", "resolved", "rejected"} /\ retry.maxAttempts >= 1)
      => /\ \A k \in DOMAIN retry.onRetryCalls : retry.onRetryCalls[k] = k
         /\ retry.pc \in {"call", "resolved"}
               => Len(retry.onRetryCalls) = retry.calls - 1
         /\ retry.pc = "sleep"
               => /\ Len(retry.onRetryCalls) = retry.calls
                  /\ Len(retry.sleeps) = retry.calls
         /\ retry.pc = "rejected"
               => /\ Len(retry.onRetryCalls) = retry.calls - 1
                  /\ ~retry.hookThrew
                  /\ \/ retry.calls = retry.maxAttempts
                     \/ ~retryableErrors(retry.classifier, retry.lastError)

\* C33: when fn fulfils, withRetry resolves with its value, and when fn
\* rejects with an error that is not retryable, withRetry rejects with that
\* error; every attempt before failed with a retryable error and was followed
\* by one call of onRetry and one sleep; the decisive attempt is followed by
\* no call of fn, no sleep and no call of onRetry.
StopsAtFirstDecisiveAttempt ==
    /\ [](/\ retry.pc = "resolved"
               => /\ retry.value \in FnValues
                  /\ retry.calls = Len(retry.thrown) + 1
                  /\ Len(retry.sleeps) = Len(retry.thrown)
                  /\ Len(retry.onRetryCalls) = Len(retry.thrown)
                  /\ \A k \in DOMAIN retry.thrown :
                        retryableErrors(retry.classifier, retry.thrown[k])
          /\ (/\ retry.pc = "rejected"
              /\ retry.thrown # <<>>
              /\ ~retryableErrors(retry.classifier, retry.thrown[Len(retry.thrown)]))
               => /\ ~retry.hookThrew
                  /\ retry.lastError = retry.thrown[Len(retry.thrown)]
                  /\ retry.calls = Len(retry.thrown)
                  /\ Len(retry.sleeps) = Len(Retried)
                  /\ Len(retry.onRetryCalls) = Len(Retried)
                  /\ \A k \in DOMAIN Retried :
                        retryableErrors(retry.classifier, Retried[k]))
    /\ [][retry.pc \in {"resolved", "rejected"}
            => /\ retry'.pc = retry.pc
               /\ retry'.value = retry.value
               /\ retry'.lastError = retry.lastError
               /\ retry'.calls = retry.calls
               /\ retry'.sleeps = retry.sleeps
               /\ retry'.onRetryCalls = retry.onRetryCalls]_vars

\* C33 witness: the second attempt failed with an error that is not
\* retryable, after one retry, and withRetry has rejected with it although
\* its policy allows a third attempt.
DecisiveAttemptWitness ==
    /\ retry.pc = "rejected"
    /\ retry.maxAttempts = 3
    /\ retry.calls = 2
    /\ Len(retry.thrown) = 2
    /\ retryableErrors(retry.classifier, retry.thrown[1])
    /\ ~retryableErrors(retry.classifier, retry.thrown[2])
    /\ retry.lastError = retry.thrown[2]
    /\ retry.onRetryCalls = <<1>>
    /\ Len(retry.sleeps) = 1

\* the answers to a request that the retry policy of getPRsForCommit retries
RetriedAnswers == {"timeout", "403", "503"}

\* the answers that end a lookup with an error at once
FatalAnswers == {"401", "500", "unparseable"}

\* C34: a request of a lookup is repeated only when it was answered by the
\* local timeout, HTTP 403 or HTTP 503 and fewer than API_MAX_RETRIES
\* requests have been made; a lookup fails only with the error of its
\* answer, at once when the answer is HTTP 401, another error status or an
\* unparseable body, and after API_MAX_RETRIES requests when it is retried;
\* HTTP 404 gives a successful empty result.  No lookup makes more than
\* API_MAX_RETRIES requests, and with at most MAX_COMMITS_TO_SEARCH_PRS
\* lookups that is at most 60 requests.
ResolverRetryClassification ==
    /\ [](/\ \A k \in DOMAIN gh.lookups :
                /\ k <= MAX_COMMITS_TO_SEARCH_PRS
                /\ gh.lookups[k].status = "pending"
                      => gh.lookups[k].attempt \in 1..API_MAX_RETRIES
          /\ MAX_COMMITS_TO_SEARCH_PRS * API_MAX_RETRIES = 60)
    /\ [][(gh.pc = "allSettled" /\ gh'.pc = "allSettled" /\ gh'.batches = gh.batches)
            => \A k \in DOMAIN gh.lookups :
                  (gh'.lookups[k] # gh.lookups[k])
                    => LET attempt == gh.lookups[k].attempt
                           after == gh'.lookups[k]
                       IN /\ gh.lookups[k].status = "pending"
                          /\ after.status = "pending"
                                => /\ after.attempt = attempt + 1
                                   /\ attempt < API_MAX_RETRIES
                                   /\ gh.fault \in RetriedAnswers
                          /\ after.status # "pending"
                                => /\ after.status = "fulfilled"
                                   /\ after.error = Null
                                         => \/ after.value = <<>>
                                            \/ \E data \in Responses200 :
                                                  after = lookupResolved(gh.lookups[k], data)
                                   /\ after.error # Null
                                         => /\ after.value = <<>>
                                            /\ after.error = statusError(gh.fault)
                                            /\ \/ gh.fault \in FatalAnswers
                                               \/ /\ gh.fault \in RetriedAnswers
                                                  /\ attempt = API_MAX_RETRIES]_vars

\* C34 witness: a lookup answered twice with HTTP 503 has its third request
\* in flight.
ResolverRetryWitness ==
    /\ gh.pc = "allSettled"
    /\ gh.fault = "503"
    /\ \E k \in DOMAIN gh.lookups :
          /\ gh.lookups[k].status = "pending"
          /\ gh.lookups[k].attempt = API_MAX_RETRIES

(***************************************************************************)
(* Properties of the cache entries (checked under Spec).                   *)
(***************************************************************************)
\* a step in which an accepted non-forced request finds an entry of its key
\* that is neither expired nor of other code
CacheHit ==
    /\ ~analysisInProgress
    /\ NonForcedCall
    /\ analysisCache[RequestKey] # NoEntry
    /\ now - analysisCache[RequestKey].timestamp <= getCacheTtlMs
    /\ analysisCache[RequestKey].codeHash = getCodeHash(lastAnalysis'.code)

\* C35: a cache hit shows a report annotated with fromCache and cacheAge and
\* leaves the cache as it was: the stored report, code hash and timestamp
\* are unchanged; and no stored report ever carries fromCache or cacheAge.
HitLeavesCacheUnchanged ==
    /\ [](\A k \in Keys :
             analysisCache[k] # NoEntry
               => /\ "fromCache" \notin DOMAIN analysisCache[k].result
                  /\ "cacheAge" \notin DOMAIN analysisCache[k].result)
    /\ [][CacheHit
            => /\ ui'.kind = "cachedReport"
               /\ ui'.report.fromCache
               /\ ui'.report.cacheAge = now - analysisCache[RequestKey].result.analyzedAt
               /\ UNCHANGED analysisCache]_vars

\* C35 witness: a report was served from the cache some time after it was
\* stored, and its entry still has the timestamp of the analysis and a
\* report without annotations.
HitLeavesCacheWitness ==
    /\ ui.kind = "cachedReport"
    /\ ui.report.cacheAge > 0
    /\ analysisCache[KeyOf(ui.report)] # NoEntry
    /\ analysisCache[KeyOf(ui.report)].timestamp = ui.report.analyzedAt
    /\ analysisCache[KeyOf(ui.report)].timestamp < now
    /\ "fromCache" \notin DOMAIN analysisCache[KeyOf(ui.report)].result

\* C36: every cache entry holds a report of the path and range of its key,
\* the hash of that report's code text, and a timestamp not earlier than
\* the report's analyzedAt.
CacheEntryConsistency ==
    \A k \in Keys :
       analysisCache[k] # NoEntry
         => LET entry == analysisCache[k]
            IN /\ getCacheKey(entry.result.filePath, entry.result.startLine,
                              entry.result.endLine) = k
               /\ entry.codeHash = getCodeHash(entry.result.code)
               /\ entry.timestamp >= entry.result.analyzedAt

\* C36 witness: the cache holds entries under two keys, for different code
\* texts, and no analysis is in flight.
CacheEntryConsistencyWitness ==
    /\ \A k \in Keys : analysisCache[k] # NoEntry
    /\ \E j, k \in Keys :
          /\ j # k
          /\ analysisCache[j].result.code # analysisCache[k].result.code
    /\ pending = EmptyBag

\* C37: the return or the exception of a stage of a forced request that the
\* user has cancelled, and the exception of a stage of any forced request,
\* end the request and leave every cache entry as it was, the entry of its
\* key included.
FailedRefreshKeepsEntry ==
    [][\A r \in Invs :
          (/\ r.forceRefresh
           /\ \/ r.cancelRequested /\ StageReturns(r)
              \/ StageThrows(r))
            => /\ pending' = Without(r)
               /\ UNCHANGED analysisCache]_vars

\* a step in which invocation r enters the progress callback
Starts(r) ==
    /\ r.pc \in {"getKey", "prompt"}
    /\ CopiesIn([r EXCEPT !.pc = "git"], pending')
         > CopiesIn([r EXCEPT !.pc = "git"], pending)

\* C38: analysisCancelled is false after every step in which an analysis
\* starts (enters the progress callback), whatever an earlier, ended analysis
\* left in it; the flag turns true only in a step that requests the
\* cancellation of an invocation that is in its stages at that step; and a
\* stage that returns while the flag is false is followed by the next stage
\* or, after the last stage, by the cache write and the report.
NoCancellationLeak ==
    [][/\ \A r \in Invs : Starts(r) => ~analysisCancelled'
       /\ (~analysisCancelled /\ analysisCancelled')
            => \E r \in Invs :
                  /\ r.pc \in StagePcs
                  /\ pending' = Replace(r, [r EXCEPT !.cancelRequested = TRUE])
       /\ \A r \in Invs :
            (~analysisCancelled /\ StageReturns(r))
              => IF r.pc = "github"
                 THEN /\ ui'.kind = "report"
                      /\ analysisCache'[KeyOf(r)] # NoEntry
                      /\ analysisCache'[KeyOf(r)].result = ui'.report
                 ELSE \E r2 \in BagToSet(pending') :
                         /\ r2.pc \in StagePcs
                         /\ pending' = Replace(r, r2)]_vars

\* C38 witness: a cancelled analysis has ended and left analysisCancelled
\* set, nothing is in its stages, and a later request that found a key is
\* about to start
NoCancellationLeakWitness ==
    /\ analysisCancelled
    /\ ~analysisInProgress
    /\ claudeKey
    /\ Invs # {}
    /\ \A r \in Invs : r.pc = "getKey"

\* a step in which the analyze or the analyzeFile command calls analyzeCode
CommandCall == analyzeCommand \/ analyzePartCommand \/ analyzeFileCommand

\* C39: (a) a command request that is not rejected as busy leaves in
\* lastAnalysis its own path, range and code: those of the invocation it
\* suspends as, or those of the cached report it is shown; (b) a request
\* rejected as busy leaves lastAnalysis as it was; (c) the refresh command,
\* when not rejected as busy, calls analyzeCode with the path and range that
\* lastAnalysis holds at that moment and with forceRefresh, is shown no cached
\* report and records itself in lastAnalysis; (d) when lastAnalysis is empty
\* the refresh command shows an error and starts no invocation; (e) nothing
\* else changes lastAnalysis, whatever becomes of the request afterwards.
RefreshTarget ==
    [][/\ (~analysisInProgress /\ CommandCall)
            => /\ lastAnalysis' # NoAnalysis
               /\ \/ pending' = pending (+) SetToBag({RequestInv})
                  \/ /\ ui'.kind = "cachedReport"
                     /\ KeyOf(ui'.report) = RequestKey
                     /\ ui'.report.code = lastAnalysis'.code
                     /\ pending' = pending
       /\ (analysisInProgress /\ CommandCall) => UNCHANGED lastAnalysis
       /\ \A r \in Invs :
             RefreshCalls(r)
                => IF analysisInProgress
                   THEN UNCHANGED lastAnalysis
                   ELSE /\ lastAnalysis # NoAnalysis
                        /\ RequestKey = LastKey
                        /\ pending' = Without(r) (+) SetToBag({
                                        [RequestInv EXCEPT !.forceRefresh = TRUE]})
                        /\ UNCHANGED <<ui, analysisCache>>
       /\ (lastAnalysis = NoAnalysis /\ refreshCommand)
            => /\ ui' = Ui("error", NoReport)
               /\ UNCHANGED <<pending, lastAnalysis, analysisCache,
                              analysisInProgress>>
       /\ (lastAnalysis' # lastAnalysis)
            => /\ ~analysisInProgress
               /\ CommandCall \/ \E r \in Invs : RefreshCalls(r)]_vars

\* C39 witness: the last request was for the selected part of the file, and
\* the refresh command has suspended a forced invocation for that path and
\* range, which lastAnalysis still records
RefreshTargetWitness ==
    /\ lastAnalysis # NoAnalysis
    /\ <<lastAnalysis.startLine, lastAnalysis.endLine>> \in PartSelections
    /\ \E r \in Invs :
          /\ r.forceRefresh
          /\ r.pc = "getKey"
          /\ KeyOf(r) = LastKey
          /\ r.code = lastAnalysis.code

\* the PRs of the fulfilled answers, in commit order
RECURSIVE Flatten(_)
Flatten(answers) ==
    IF answers = <<>> THEN <<>>
    ELSE (IF Head(answers).status = "fulfilled" THEN Head(answers).value
                                                ELSE <<>>)
         \o Flatten(Tail(answers))

\* the list determined by the answers in commit order and maxPRs alone: of
\* the first occurrences of each PR number the first maxPRs, the later
\* created_at first and, of two PRs created at the same time, the one met
\* first in commit order first
ExpectedPRs(answers, maxPRs) ==
    LET flat == Flatten(answers)
        firsts == {j \in DOMAIN flat :
                      \A j2 \in 1..(j - 1) : flat[j2].number # flat[j].number}
        kept == {j \in firsts : Cardinality({j2 \in firsts : j2 < j}) < maxPRs}
        rank(j) == 1 + Cardinality({j2 \in kept :
                          \/ flat[j2].createdAt > flat[j].createdAt
                          \/ /\ flat[j2].createdAt = flat[j].createdAt
                             /\ j2 < j})
    IN [r \in 1..Cardinality(kept) |-> flat[CHOOSE j \in kept : rank(j) = r]]

\* C40: whatever the order in which the lookups of each batch settled, the
\* list getPullRequestsForCommits returns is the one determined by the
\* answers in commit order and maxPRs alone, and it is ordered by created_at,
\* newest first.
ResolverDeterminism ==
    gh.pc = "returned"
      => /\ gh.result = ExpectedPRs(gh.answers, gh.maxPRs)
         /\ \A j, k \in DOMAIN gh.result :
               j < k => gh.result[j].createdAt >= gh.result[k].createdAt

\* C40 witness: a call has returned two PRs created at the same time, found
\* by two lookups of one batch, of which the later commit's settled first
ResolverDeterminismWitness ==
    /\ gh.pc = "returned"
    /\ Len(gh.order) = 2
    /\ gh.order[1] > gh.order[2]
    /\ Len(gh.result) = 2
    /\ gh.result[1].createdAt = gh.result[2].createdAt
    /\ gh.answers[1].value # <<>>
    /\ gh.answers[2].value # <<>>
    /\ gh.answers[1] # gh.answers[2]

====
